---- MODULE Spec2Model ----
(***************************************************************************)
(* dnsscale: the reconciliation engine of src/main.go (DNSReconciler) with *)
(* the three DNS providers of src/providers.                               *)
(*                                                                         *)
(* Strings are sequences of tokens; a token is a run of characters that    *)
(* no operation of the program splits.  "1" and "12" are <<"1">> and       *)
(* <<"1","2">>, so that prefix, suffix and substring tests are computed    *)
(* the way the Go code computes them.                                      *)
(***************************************************************************)
EXTENDS Integers, Sequences, FiniteSets, TLC

VARIABLES
    provider,     \* config.DNS.Provider: which DNSProvider createDNSProvider built
    annotations,  \* DNSReconciler.annotations: the required tags (keys of the map)
    tailnet,      \* the membership source: authorized devices by id, as ListNodes reports them
    changes,      \* membership changes still to come (the model's budget)
    faults,       \* backend transport errors still to come (the model's budget)
    nodeCache,    \* DNSReconciler.nodeCache
    queue,        \* workqueue: the FIFO of keys ready for a worker
    dirty,        \* workqueue: keys added and not yet handed to a worker
    processing,   \* workqueue: keys a worker holds between Get and Done
    delayed,      \* workqueue: keys waiting in AddRateLimited's backoff
    zone,         \* the records the DNS backend holds
    pc,           \* per worker: where it is in worker()/reconcile()/deleteNodeDNS()
    item,         \* per worker: the key obtained from queue.Get
    node,         \* per worker: reconcile's local copy of the cached node
    idx,          \* per worker: loop index (address loop, or sweep loop)
    records,      \* per worker: deleteNodeDNS's listed records, and those to sweep in list order
    err,          \* per worker: whether reconcile is returning an error
    calls,        \* per worker: backend calls of the reconcile in progress (observer)
    outcomes,     \* per worker: whether each of these calls returned nil or an error (observer)
    fetched,      \* the node list of the last successful ListNodes (observer)
    pass,         \* the last sync pass: its result and the keys it added (observer)
    prev,         \* the last reconcile that returned: key, node, calls, zone left, error (observer)
    cancelled,    \* Run's ctx is done
    shutdown,     \* queue.ShutDown has been called
    run,          \* where Run's goroutine is: "serving", "waiting" (wg.Wait) or "returned"
    device,       \* the tailscale.Device handed to ToTailscaleNode: its Name and Hostname
    converted,    \* the Name of the TailscaleNode that ToTailscaleNode returned
    failures,     \* rate limiter: per key, the failures since the last Forget
    delay,        \* rate limiter: per key, the delay its last AddRateLimited was given
    cacheMutex,   \* DNSReconciler.cacheMutex: the writer and the readers holding it
    watcher,      \* where watchTailscale's goroutine is
    ticks,        \* ticker.C: whether a tick waits in the channel
    sync,         \* syncNodes' locals: the fetched nodes, currentIDs, the loop position
    intent,       \* the intent syncNodes detected for a node id: an upsert or a deletion
    routed        \* the key queued for that intent, and where reconcile routed it

vars == <<provider, annotations, tailnet, changes, faults, nodeCache, queue, dirty,
          processing, delayed, zone, pc, item, node, idx, records, err, calls, outcomes,
          fetched, pass, prev, cancelled, shutdown, run, device, converted, failures,
          delay, cacheMutex, watcher, ticks, sync, intent, routed>>

\* the variables of ToTailscaleNode, of the rate limiter and of the poller
nameVars == <<device, converted>>

limiterVars == <<failures, delay>>

pollerVars == <<cacheMutex, watcher, ticks, sync>>

\* the variables of the routing of a key
routeVars == <<intent, routed>>

--------------------------------------------------------------------------
(* Bounds of the model *)

\* membership changes in a run of the one-worker engine
MaxChanges == 1
\* membership changes in a run of the poller alone
MaxSyncChanges == 2
\* backend transport errors in a run
MaxFaults == 1
\* characters in a device's Name and in its Hostname
MaxNameLen == 3
\* consecutive failures of one key that the rate limiter counts in a run
MaxFailures == 4
\* characters and ':delete' suffixes in a node id whose key is routed
MaxIdLen == 3
\* membership changes in a run in which a node is renamed and leaves, or leaves
\* and comes back
MaxChurn == 2
\* config.App.Workers, the default
NumWorkers == 2

Workers == 1..NumWorkers

--------------------------------------------------------------------------
(* Go string functions on token sequences *)

\* strings.HasSuffix
HasSuffix(s, suffix) ==
    /\ Len(s) >= Len(suffix)
    /\ SubSeq(s, Len(s) - Len(suffix) + 1, Len(s)) = suffix

\* strings.TrimSuffix
TrimSuffix(s, suffix) ==
    IF HasSuffix(s, suffix) THEN SubSeq(s, 1, Len(s) - Len(suffix)) ELSE s

\* strings.Contains
Contains(s, substr) ==
    \E i \in 1..(Len(s) + 1) :
        /\ i + Len(substr) - 1 <= Len(s)
        /\ SubSeq(s, i, i + Len(substr) - 1) = substr

\* strings.Index for a one-character substr: the offset of its first
\* occurrence, counted from 0, or -1
Index(s, c) ==
    IF \E i \in 1..Len(s) : s[i] = c
    THEN (CHOOSE i \in 1..Len(s) : s[i] = c /\ \A j \in 1..(i - 1) : s[j] # c) - 1
    ELSE -1

--------------------------------------------------------------------------
(* The universe of the model: ids, names, addresses, tags *)

\* node ids; "1" is a proper prefix of "12"
Id1 == <<"1">>
Id12 == <<"1", "2">>
IDs == {Id1, Id12}

\* config.DNS.Domain
Domain == <<"example", ".", "com">>

Names == {<<"web">>, <<"db">>}

V4a == <<"100.64.1.1">>
V4b == <<"100.64.1.2">>
V6a == <<"fd7a", ":", "115c", ":", ":", "1">>

AddrLists == {<<V4a>>, <<V4a, V6a>>, <<V4a, V4b>>, <<V4b, V4a>>}

TagSets == {<<>>, <<"tag:prod">>}

\* config.App.RequiredTags
TagConfigs == {{}, {"tag:prod"}}

Providers == {"route53", "cloudflare", "pihole"}

\* TailscaleNode, the fields the engine reads
Node(id, name, addresses, tags, online) ==
    [id |-> id, name |-> name, addresses |-> addresses, tags |-> tags, online |-> online]

\* the devices the membership source may report for id "1"
Devices1 ==
    {Node(Id1, n, a, t, o) : n \in Names, a \in AddrLists, t \in TagSets, o \in BOOLEAN}

\* the devices the membership source may report for id "12"
Devices12 ==
    {Node(Id12, <<"db">>, <<V4b>>, <<"tag:prod">>, TRUE)}

Devices(id) == IF id = Id1 THEN Devices1 ELSE Devices12

--------------------------------------------------------------------------
(* Change keys *)

DeleteSuffix == <<":delete">>

UpsertKey(id) == id

DeleteKey(id) == id \o DeleteSuffix

Keys == {UpsertKey(i) : i \in IDs} \cup {DeleteKey(i) : i \in IDs}

--------------------------------------------------------------------------
(* Change Detector *)

\* a variant of nodesEqual that also compares the tag lists
nodesEqualWithTags(a, b) ==
    /\ a.name = b.name
    /\ a.online = b.online
    /\ a.addresses = b.addresses
    /\ a.tags = b.tags

\* a variant of nodesEqual that compares the addresses as sets
nodesEqualUnordered(a, b) ==
    /\ a.name = b.name
    /\ a.online = b.online
    /\ {a.addresses[i] : i \in 1..Len(a.addresses)}
          = {b.addresses[i] : i \in 1..Len(b.addresses)}

\* nodesEqual: name, online and the address list, element by element
nodesEqual(a, b) ==
    IF a.name # b.name \/ a.online # b.online \/ Len(a.addresses) # Len(b.addresses)
    THEN FALSE
    ELSE \A i \in 1..Len(a.addresses) : a.addresses[i] = b.addresses[i]

\* the condition of syncNodes' first loop
NeedsUpsert(cache, n) ==
    \/ n.id \notin DOMAIN cache
    \/ ~nodesEqual(cache[n.id], n)

\* map assignment r.nodeCache[id] = n
CachePut(cache, n) ==
    [i \in (DOMAIN cache) \cup {n.id} |-> IF i = n.id THEN n ELSE cache[i]]

\* delete(r.nodeCache, id) for every id of a set
CacheRemove(cache, ids) ==
    [i \in (DOMAIN cache) \ ids |-> cache[i]]

RECURSIVE SyncUpserts(_, _)
\* syncNodes' first loop over the fetched list: the new cache and the keys added
SyncUpserts(cache, nodes) ==
    IF nodes = <<>> THEN [cache |-> cache, keys |-> <<>>]
    ELSE LET n == Head(nodes)
             hit == NeedsUpsert(cache, n)
             rest == SyncUpserts(IF hit THEN CachePut(cache, n) ELSE cache, Tail(nodes))
         IN [cache |-> rest.cache,
             keys |-> IF hit THEN <<UpsertKey(n.id)>> \o rest.keys ELSE rest.keys]

\* a variant of the second loop that looks at the first fetched node only
SyncDeletionsFirstOnly(cache, nodes) ==
    {i \in DOMAIN cache : nodes = <<>> \/ nodes[1].id # i}

\* syncNodes' second loop: the cached ids the fetched list does not hold
SyncDeletions(cache, nodes) ==
    {i \in DOMAIN cache : \A k \in 1..Len(nodes) : nodes[k].id # i}

--------------------------------------------------------------------------
(* Work queue: k8s.io/client-go/util/workqueue, as the engine uses it.    *)
(* A queue value is [queue, dirty, processing].                            *)

\* a variant of queue.Add that does not hold back a key that is in flight
QAddWhileProcessing(q, k) ==
    IF k \in q.dirty THEN q
    ELSE [q EXCEPT !.dirty = @ \cup {k}, !.queue = Append(@, k)]

\* a variant of queue.Add that drops a key that is in flight
QAddUnlessProcessing(q, k) ==
    IF k \in q.dirty \/ k \in q.processing THEN q
    ELSE [q EXCEPT !.dirty = @ \cup {k}, !.queue = Append(@, k)]

\* queue.Add: deduplicated while pending, held back while in flight
QAdd(q, k) ==
    IF k \in q.dirty THEN q
    ELSE IF k \in q.processing THEN [q EXCEPT !.dirty = @ \cup {k}]
    ELSE [q EXCEPT !.dirty = @ \cup {k}, !.queue = Append(@, k)]

RECURSIVE QAddAll(_, _)
\* the queue.Add calls of one sync pass, in order
QAddAll(q, keys) ==
    IF keys = <<>> THEN q ELSE QAddAll(QAdd(q, Head(keys)), Tail(keys))

\* queue.Get with an item available
QGet(q) ==
    [queue |-> Tail(q.queue),
     dirty |-> q.dirty \ {Head(q.queue)},
     processing |-> q.processing \cup {Head(q.queue)}]

\* a variant of queue.Done that forgets a key added while it was in flight
QDoneDropping(q, k) ==
    [q EXCEPT !.processing = @ \ {k}, !.dirty = @ \ {k}]

\* queue.Done: release the in-flight guard, re-admit a key added meanwhile
QDone(q, k) ==
    IF k \in q.dirty
    THEN [q EXCEPT !.processing = @ \ {k}, !.queue = Append(@, k)]
    ELSE [q EXCEPT !.processing = @ \ {k}]

TheQueue == [queue |-> queue, dirty |-> dirty, processing |-> processing]

SetQueue(q) ==
    /\ queue' = q.queue
    /\ dirty' = q.dirty
    /\ processing' = q.processing

--------------------------------------------------------------------------
(* DNS records and the three providers.                                    *)
(* The zone is a set of records; `by` is an observer field naming the node *)
(* id whose reconcile wrote the record, or Foreign for a record the engine *)
(* did not write.  No provider operation reads it.                         *)

\* the TTL of every record the engine builds
TTL == 300

Foreign == <<"foreign">>

\* providers.DNSRecord
DNSRecord(r) == [name |-> r.name, type |-> r.type, value |-> r.value, ttl |-> r.ttl]

Stored(rec, by) ==
    [name |-> rec.name, type |-> rec.type, value |-> rec.value, ttl |-> rec.ttl, by |-> by]

SameNameType(r, rec) == r.name = rec.name /\ r.type = rec.type

\* Pi-hole's custom DNS holds (domain, ip) pairs; the type is read off the ip
PiholeType(value) == IF Contains(value, <<":">>) THEN "AAAA" ELSE "A"

\* ListRecords: the records each provider reports (the order is the backend's)
ListRecords(p, z) ==
    CASE p = "route53" -> {DNSRecord(r) : r \in {x \in z : x.type \in {"A", "AAAA"}}}
      [] p = "cloudflare" -> {DNSRecord(r) : r \in {x \in z : x.type \in {"A", "AAAA", "TXT"}}}
      [] p = "pihole" ->
            {[name |-> r.name, type |-> PiholeType(r.value), value |-> r.value, ttl |-> 300] :
                r \in {x \in z : HasSuffix(x.name, Domain)}}

\* UpdateRecord returns an error whatever the backend holds
UpdateRejected(p, rec) ==
    p = "pihole" /\ rec.type # "A" /\ rec.type # "AAAA"

\* UpdateRecord, every request succeeding: the zones it can leave
UpdateRecord(p, z, rec, by) ==
    LET same == {r \in z : SameNameType(r, rec)}
    IN CASE p = "route53" ->
              \* ChangeActionUpsert replaces the record set of (name, type)
              {(z \ same) \cup {Stored(rec, by)}}
         [] p = "cloudflare" ->
              \* PUT on the first record the name/type query returns, else POST
              IF same = {} THEN {z \cup {Stored(rec, by)}}
              ELSE {(z \ {r}) \cup {Stored(rec, by)} : r \in same}
         [] p = "pihole" ->
              \* delete the first listed record of (name, type), then add
              LET listed == {r \in z : /\ HasSuffix(r.name, Domain)
                                        /\ r.name = rec.name
                                        /\ PiholeType(r.value) = rec.type}
              IN IF listed = {} THEN {z \cup {Stored(rec, by)}}
                 ELSE {(z \ {x \in z : x.name = r.name /\ x.value = r.value})
                          \cup {Stored(rec, by)} : r \in listed}

\* DeleteRecord, every request succeeding: the zones it can leave
DeleteRecord(p, z, rec) ==
    LET same == {r \in z : SameNameType(r, rec)}
    IN CASE p = "route53" ->
              \* ChangeActionDelete of the record set {name, type, ttl, value}
              {z \ {r \in same : r.value = rec.value /\ r.ttl = rec.ttl}}
         [] p = "cloudflare" ->
              \* DELETE of the first record the name/type query returns
              IF same = {} THEN {z} ELSE {z \ {r} : r \in same}
         [] p = "pihole" ->
              IF rec.type # "A" /\ rec.type # "AAAA" THEN {z}
              ELSE {z \ {r \in z : r.name = rec.name /\ r.value = rec.value}}

--------------------------------------------------------------------------
(* reconcile: the records of a node *)

\* fmt.Sprintf("%s.%s", node.Name, r.domain)
RecordName(n) == n.name \o <<".">> \o Domain

\* a variant of the type rule that knows one family only
RecordTypeAlwaysA(addr) == "A"

\* a variant of the address record whose TTL follows the online flag
AddressRecordByOnline(n, addr) ==
    [name |-> n.name \o <<".">> \o Domain,
     type |-> IF Contains(addr, <<":">>) THEN "AAAA" ELSE "A",
     value |-> addr,
     ttl |-> IF n.online THEN 300 ELSE 60]

\* "A", or "AAAA" when the literal contains a colon
RecordType(addr) == IF Contains(addr, <<":">>) THEN "AAAA" ELSE "A"

AddressRecord(n, addr) ==
    [name |-> RecordName(n), type |-> RecordType(addr), value |-> addr, ttl |-> TTL]

\* fmt.Sprintf("\"dnsscale-managed node_id=%s\"", node.ID)
OwnershipValue(id) == <<"\"", "dnsscale-managed ", "node_id=">> \o id \o <<"\"">>

OwnershipRecord(n) ==
    [name |-> RecordName(n), type |-> "TXT", value |-> OwnershipValue(n.id), ttl |-> TTL]

\* a variant of shouldManageNode that manages every node
shouldManageNodeAlways(ann, n) == TRUE

\* shouldManageNode
shouldManageNode(ann, n) ==
    IF ann # {}
    THEN \E i \in 1..Len(n.tags) : n.tags[i] \in ann
    ELSE TRUE

\* a variant of the test that takes any TXT record for the node's marker
IsOwnershipOfAnyId(rec, nodeID) == rec.type = "TXT"

\* deleteNodeDNS' test of one listed record
IsOwnershipOf(rec, nodeID) ==
    rec.type = "TXT" /\ Contains(rec.value, <<"node_id=">> \o nodeID)

\* UpdateRecord returning a transport error: the zones it can leave
\* (Pi-hole's update has deleted the old record when its add request fails)
UpdateFailed(p, z, rec) ==
    IF p = "pihole"
    THEN {z} \cup {z \ {x \in z : x.name = r.name /\ x.value = r.value} :
                      r \in {x \in z : /\ HasSuffix(x.name, Domain)
                                        /\ x.name = rec.name
                                        /\ PiholeType(x.value) = rec.type}}
    ELSE {z}

\* all orders in which a finite set can be listed
RECURSIVE Orders(_)
Orders(S) ==
    IF S = {} THEN {<<>>}
    ELSE UNION {{<<x>> \o rest : rest \in Orders(S \ {x})} : x \in S}

--------------------------------------------------------------------------
(* Initial state: NewDNSReconciler, runDNSScale *)

ForeignA ==
    [name |-> <<"web", ".", "example", ".", "com">>, type |-> "A",
     value |-> <<"10.0.0.9">>, ttl |-> 60, by |-> Foreign]

\* what the zone may hold before the engine starts
InitialZones == {{ForeignA}}

\* device names are unique within a tailnet
UniqueNames(t) ==
    \A i, j \in DOMAIN t : i # j => t[i].name # t[j].name

\* the tailnets the engine may find when it starts
Tailnets ==
    {t \in UNION {[S -> Devices1 \cup Devices12] : S \in SUBSET IDs} :
        /\ \A i \in DOMAIN t : t[i] \in Devices(i) /\ t[i].online
        /\ UniqueNames(t)}

\* the order in which ListNodes reports the devices
NodeList(t) ==
    IF Id1 \in DOMAIN t
    THEN IF Id12 \in DOMAIN t THEN <<t[Id1], t[Id12]>> ELSE <<t[Id1]>>
    ELSE IF Id12 \in DOMAIN t THEN <<t[Id12]>> ELSE <<>>

NoNode == [id |-> <<>>, name |-> <<>>, addresses |-> <<>>, tags |-> <<>>, online |-> FALSE]

NoRecords == [listed |-> {}, sweep |-> <<>>]

NoPass == [result |-> "none", keys |-> <<>>]

NoRun == [key |-> <<>>, node |-> NoNode, calls |-> <<>>, zone |-> {}, failed |-> FALSE]

\* no device has been converted
NoDevice == [name |-> <<>>, hostname |-> <<>>]

NotConverted == [done |-> FALSE, name |-> <<>>]

\* nobody holds the cache lock
Unlocked == [writer |-> FALSE, readers |-> {}]

\* syncNodes is not running
NoSync == [nodes |-> <<>>, i |-> 0, gone |-> <<>>]

WorkerIdle ==
    /\ pc = [w \in Workers |-> "idle"]
    /\ item = [w \in Workers |-> <<>>]
    /\ node = [w \in Workers |-> NoNode]
    /\ idx = [w \in Workers |-> 0]
    /\ records = [w \in Workers |-> NoRecords]
    /\ err = [w \in Workers |-> FALSE]
    /\ calls = [w \in Workers |-> <<>>]
    /\ outcomes = [w \in Workers |-> <<>>]

\* no device is being converted
NoConversion ==
    /\ device = NoDevice
    /\ converted = NotConverted

\* no key is being routed
NoIntent == [id |-> <<>>, deletion |-> FALSE]

NotRouted == [stage |-> "detected", key |-> <<>>, deletion |-> FALSE, id |-> <<>>]

NoRouting ==
    /\ intent = NoIntent
    /\ routed = NotRouted

\* the rate limiter has seen no failure
LimiterIdle ==
    /\ failures = [k \in Keys |-> 0]
    /\ delay = [k \in Keys |-> 0]

\* watchTailscale has not started
PollerIdle ==
    /\ cacheMutex = Unlocked
    /\ watcher = "start"
    /\ ticks = 0
    /\ sync = NoSync

\* NewDNSReconciler and Run; the budgets bound the run
StartEngine(maxChanges, maxFaults) ==
    /\ provider \in Providers
    /\ annotations \in TagConfigs
    /\ tailnet \in Tailnets
    /\ changes = maxChanges
    /\ faults = maxFaults
    /\ nodeCache = <<>>
    /\ queue = <<>>
    /\ dirty = {}
    /\ processing = {}
    /\ delayed = {}
    /\ zone \in InitialZones
    /\ WorkerIdle
    /\ cancelled = FALSE
    /\ shutdown = FALSE
    /\ run = "serving"
    /\ fetched = <<>>
    /\ pass = NoPass
    /\ prev = NoRun
    /\ LimiterIdle
    /\ PollerIdle

\* the engine starts; the budgets bound the run
Start(maxChanges, maxFaults) ==
    StartEngine(maxChanges, maxFaults) /\ NoConversion /\ NoRouting

--------------------------------------------------------------------------
(* The membership source *)

\* a device as the source reports it after one change: a new name, a flipped
\* online flag, another tag list or another address list
Changed(n) ==
    {m \in Devices(n.id) :
        \/ m.name # n.name /\ m.online = n.online /\ m.tags = n.tags /\ m.addresses = n.addresses
        \/ m.name = n.name /\ m.online # n.online /\ m.tags = n.tags /\ m.addresses = n.addresses
        \/ m.name = n.name /\ m.online = n.online /\ m.tags # n.tags /\ m.addresses = n.addresses
        \/ m.name = n.name /\ m.online = n.online /\ m.tags = n.tags /\ m.addresses # n.addresses}

\* a device joins the tailnet
Join ==
    /\ changes > 0
    /\ \E i \in IDs \ DOMAIN tailnet : \E n \in Devices(i) :
        /\ UniqueNames(CachePut(tailnet, n))
        /\ tailnet' = CachePut(tailnet, n)
    /\ changes' = changes - 1
    /\ UNCHANGED <<nameVars, routeVars, limiterVars, pollerVars,
                   provider, annotations, faults, nodeCache, queue, dirty, processing,
                   delayed, zone, pc, item, node, idx, records, err, calls, outcomes, fetched,
                   pass, prev, cancelled, shutdown, run>>

\* a device leaves the tailnet
Leave ==
    /\ changes > 0
    /\ \E i \in DOMAIN tailnet : tailnet' = CacheRemove(tailnet, {i})
    /\ changes' = changes - 1
    /\ UNCHANGED <<nameVars, routeVars, limiterVars, pollerVars,
                   provider, annotations, faults, nodeCache, queue, dirty, processing,
                   delayed, zone, pc, item, node, idx, records, err, calls, outcomes, fetched,
                   pass, prev, cancelled, shutdown, run>>

\* a device of the tailnet changes
Change ==
    /\ changes > 0
    /\ \E i \in DOMAIN tailnet : \E n \in Changed(tailnet[i]) :
        /\ UniqueNames(CachePut(tailnet, n))
        /\ tailnet' = CachePut(tailnet, n)
    /\ changes' = changes - 1
    /\ UNCHANGED <<nameVars, routeVars, limiterVars, pollerVars,
                   provider, annotations, faults, nodeCache, queue, dirty, processing,
                   delayed, zone, pc, item, node, idx, records, err, calls, outcomes, fetched,
                   pass, prev, cancelled, shutdown, run>>

\* a device of the tailnet goes offline or comes back online
Flip ==
    /\ Change
    /\ \E i \in DOMAIN tailnet : tailnet'[i].online # tailnet[i].online

--------------------------------------------------------------------------
(* ToTailscaleNode: the name of a device *)

RECURSIVE Strings(_, _)
\* the strings over the characters cs of at most n characters
Strings(cs, n) ==
    IF n = 0 THEN {<<>>}
    ELSE LET shorter == Strings(cs, n - 1)
         IN shorter \cup {Append(s, c) : s \in shorter, c \in cs}

\* the devices the API may return: a Name and a Hostname, either may be empty
ApiDevices ==
    {[name |-> n, hostname |-> h] :
        n \in Strings({"n", "."}, MaxNameLen), h \in Strings({"h", "."}, MaxNameLen)}

\* a variant of the cut that also cuts at a dot the name starts with
CutAtAnyDot(name) ==
    LET dotIndex == Index(name, ".")
    IN IF dotIndex >= 0 THEN SubSeq(name, 1, dotIndex) ELSE name

\* name = name[:dotIndex] when strings.Index(name, ".") > 0
CutAtDot(name) ==
    LET dotIndex == Index(name, ".")
    IN IF dotIndex > 0 THEN SubSeq(name, 1, dotIndex) ELSE name

\* the Name field of d.ToTailscaleNode()
DeriveName(d) ==
    LET name == IF d.name = <<>> THEN d.hostname ELSE d.name
    IN CutAtDot(name)

\* ListNodes converts a device of the API's answer
ToTailscaleNode ==
    /\ ~converted.done
    /\ converted' = [done |-> TRUE, name |-> DeriveName(device)]
    /\ UNCHANGED <<device, routeVars, limiterVars, pollerVars,
                   provider, annotations, tailnet, changes, faults, nodeCache, queue, dirty,
                   processing, delayed, zone, pc, item, node, idx, records, err, calls,
                   outcomes, fetched, pass, prev, cancelled, shutdown, run>>

\* ListNodes goes on to the next device of the answer
NextDevice ==
    /\ converted.done
    /\ device' \in ApiDevices
    /\ converted' = NotConverted
    /\ UNCHANGED <<routeVars, limiterVars, pollerVars,
                   provider, annotations, tailnet, changes, faults, nodeCache, queue, dirty,
                   processing, delayed, zone, pc, item, node, idx, records, err, calls,
                   outcomes, fetched, pass, prev, cancelled, shutdown, run>>

--------------------------------------------------------------------------
(* watchTailscale / syncNodes *)

\* syncNodes with ListNodes succeeding; `observe` says whether the pass records
\* its result, the fetched list and its queue.Add calls in `pass`
SyncPass(observe) ==
    LET nodes == NodeList(tailnet)
        up == SyncUpserts(nodeCache, nodes)
        gone == SyncDeletions(up.cache, nodes)
    IN /\ ~cancelled
       /\ \E order \in Orders(gone) :
            LET keys == up.keys \o [k \in 1..Len(order) |-> DeleteKey(order[k])]
            IN /\ nodeCache' = CacheRemove(up.cache, gone)
               /\ SetQueue(QAddAll(TheQueue, keys))
               /\ fetched' = nodes
               /\ pass' = IF observe THEN [result |-> "ok", keys |-> keys] ELSE pass
               /\ UNCHANGED <<nameVars, routeVars, limiterVars, pollerVars,
                              provider, annotations, tailnet, changes, faults, delayed,
                              zone, pc, item, node, idx, records, err, calls, outcomes,
                              prev, cancelled, shutdown, run>>

SyncNodes == SyncPass(FALSE)

SyncNodesObserved == SyncPass(TRUE)

\* a variant of the failed pass that goes on with the empty list it was given
SyncFailsAsEmpty(observe) ==
    LET gone == SyncDeletions(nodeCache, <<>>)
    IN /\ ~cancelled
       /\ \E order \in Orders(gone) :
            LET keys == [k \in 1..Len(order) |-> DeleteKey(order[k])]
            IN /\ nodeCache' = CacheRemove(nodeCache, gone)
               /\ SetQueue(QAddAll(TheQueue, keys))
               /\ pass' = IF observe THEN [result |-> "error", keys |-> keys] ELSE pass
       /\ UNCHANGED <<nameVars, routeVars, limiterVars, pollerVars,
                      provider, annotations, tailnet, changes, faults, delayed, zone, pc,
                      item, node, idx, records, err, calls, outcomes, fetched, prev,
                      cancelled, shutdown, run>>

\* syncNodes with ListNodes returning an error
SyncFails(observe) ==
    /\ pass' = IF observe THEN [result |-> "error", keys |-> <<>>] ELSE pass
    /\ UNCHANGED <<nameVars, routeVars, limiterVars, pollerVars,
                   provider, annotations, tailnet, changes, faults, nodeCache, queue, dirty,
                   processing, delayed, zone, pc, item, node, idx, records, err, calls, outcomes,
                   fetched, prev, cancelled, shutdown, run>>

SyncNodesFails == SyncFails(FALSE)

SyncNodesFailsObserved == SyncFails(TRUE)

--------------------------------------------------------------------------
(* watchTailscale and syncNodes, one step per statement that another        *)
(* goroutine can see                                                        *)

\* the ticker fires; a tick that finds one waiting in ticker.C is dropped
Tick ==
    /\ watcher # "exited"
    /\ ticks = 0
    /\ ticks' = 1
    /\ UNCHANGED <<nameVars, routeVars, limiterVars, cacheMutex, watcher, sync,
                   provider, annotations, tailnet, changes, faults, nodeCache, queue, dirty,
                   processing, delayed, zone, pc, item, node, idx, records, err, calls,
                   outcomes, fetched, pass, prev, cancelled, shutdown, run>>

\* watchTailscale: the initial r.syncNodes(ctx)
WatchStart ==
    /\ watcher = "start"
    /\ watcher' = "list"
    /\ UNCHANGED <<nameVars, routeVars, limiterVars, cacheMutex, ticks, sync,
                   provider, annotations, tailnet, changes, faults, nodeCache, queue, dirty,
                   processing, delayed, zone, pc, item, node, idx, records, err, calls,
                   outcomes, fetched, pass, prev, cancelled, shutdown, run>>

\* watchTailscale: select { case <-ticker.C: r.syncNodes(ctx); case <-ctx.Done():
\* return }; when both channels are ready, either case may be taken
WatchSelect ==
    /\ watcher = "select"
    /\ \/ ticks = 1 /\ ticks' = 0 /\ watcher' = "list"
       \/ cancelled /\ ticks' = ticks /\ watcher' = "exited"
    /\ UNCHANGED <<nameVars, routeVars, limiterVars, cacheMutex, sync,
                   provider, annotations, tailnet, changes, faults, nodeCache, queue, dirty,
                   processing, delayed, zone, pc, item, node, idx, records, err, calls,
                   outcomes, fetched, pass, prev, cancelled, shutdown, run>>

\* syncNodes: ListNodes returns the node list
SyncList ==
    /\ watcher = "list"
    /\ ~cancelled
    /\ sync' = [nodes |-> NodeList(tailnet), i |-> 1, gone |-> <<>>]
    /\ fetched' = NodeList(tailnet)
    /\ watcher' = "lock"
    /\ UNCHANGED <<nameVars, routeVars, limiterVars, cacheMutex, ticks,
                   provider, annotations, tailnet, changes, faults, nodeCache, queue, dirty,
                   processing, delayed, zone, pc, item, node, idx, records, err, calls,
                   outcomes, pass, prev, cancelled, shutdown, run>>

\* syncNodes: ListNodes returns an error, as it does when ctx is done; the pass
\* is over
SyncListFails ==
    /\ watcher = "list"
    /\ watcher' = "select"
    /\ UNCHANGED <<nameVars, routeVars, limiterVars, cacheMutex, ticks, sync,
                   provider, annotations, tailnet, changes, faults, nodeCache, queue, dirty,
                   processing, delayed, zone, pc, item, node, idx, records, err, calls,
                   outcomes, fetched, pass, prev, cancelled, shutdown, run>>

\* a variant of the pass that goes into its loops without the lock
SyncLockFree ==
    /\ watcher = "lock"
    /\ watcher' = "upserts"
    /\ UNCHANGED <<nameVars, routeVars, limiterVars, cacheMutex, ticks, sync,
                   provider, annotations, tailnet, changes, faults, nodeCache, queue, dirty,
                   processing, delayed, zone, pc, item, node, idx, records, err, calls,
                   outcomes, fetched, pass, prev, cancelled, shutdown, run>>

\* syncNodes: r.cacheMutex.Lock() returns once no reader and no writer holds
\* the lock
SyncLock ==
    /\ watcher = "lock"
    /\ ~cacheMutex.writer /\ cacheMutex.readers = {}
    /\ cacheMutex' = [cacheMutex EXCEPT !.writer = TRUE]
    /\ watcher' = "upserts"
    /\ UNCHANGED <<nameVars, routeVars, limiterVars, ticks, sync,
                   provider, annotations, tailnet, changes, faults, nodeCache, queue, dirty,
                   processing, delayed, zone, pc, item, node, idx, records, err, calls,
                   outcomes, fetched, pass, prev, cancelled, shutdown, run>>

\* syncNodes' first loop, one fetched node per step; after the last node the
\* second loop starts to range over the cache, in any order
SyncUpsert ==
    /\ watcher = "upserts"
    /\ IF sync.i <= Len(sync.nodes)
       THEN LET n == sync.nodes[sync.i]
            IN /\ IF NeedsUpsert(nodeCache, n)
                  THEN /\ nodeCache' = CachePut(nodeCache, n)
                       /\ SetQueue(QAdd(TheQueue, UpsertKey(n.id)))
                  ELSE UNCHANGED <<nodeCache, queue, dirty, processing>>
               /\ sync' = [sync EXCEPT !.i = @ + 1]
               /\ UNCHANGED watcher
       ELSE /\ \E order \in Orders(SyncDeletions(nodeCache, sync.nodes)) :
                 sync' = [sync EXCEPT !.i = 1, !.gone = order]
            /\ watcher' = "deletions"
            /\ UNCHANGED <<nodeCache, queue, dirty, processing>>
    /\ UNCHANGED <<nameVars, routeVars, limiterVars, cacheMutex, ticks,
                   provider, annotations, tailnet, changes, faults,
                   delayed, zone, pc, item, node, idx, records, err, calls,
                   outcomes, fetched, pass, prev, cancelled, shutdown, run>>

\* syncNodes' second loop, one removed id per step; after the last id the
\* deferred r.cacheMutex.Unlock() runs and syncNodes returns
SyncDelete ==
    /\ watcher = "deletions"
    /\ IF sync.i <= Len(sync.gone)
       THEN /\ nodeCache' = CacheRemove(nodeCache, {sync.gone[sync.i]})
            /\ SetQueue(QAdd(TheQueue, DeleteKey(sync.gone[sync.i])))
            /\ sync' = [sync EXCEPT !.i = @ + 1]
            /\ UNCHANGED <<watcher, cacheMutex>>
       ELSE /\ cacheMutex' = [cacheMutex EXCEPT !.writer = FALSE]
            /\ sync' = NoSync
            /\ watcher' = "select"
            /\ UNCHANGED <<nodeCache, queue, dirty, processing>>
    /\ UNCHANGED <<nameVars, routeVars, limiterVars, ticks,
                   provider, annotations, tailnet, changes, faults,
                   delayed, zone, pc, item, node, idx, records, err, calls,
                   outcomes, fetched, pass, prev, cancelled, shutdown, run>>

--------------------------------------------------------------------------
(* worker / reconcile / deleteNodeDNS, one step per queue or backend call  *)

\* a variant of the record of a backend call in which UpdateRecord is logged
\* as the CreateRecord of the provider interface
CallCreating(op, rec) == [op |-> IF op = "update" THEN "create" ELSE op, rec |-> rec]

Call(op, rec) == [op |-> op, rec |-> rec]

\* a backend request returns a transport error: one of the run's faults, or
\* any request made with a ctx that is done
CallFails ==
    /\ faults > 0 \/ cancelled
    /\ faults' = IF cancelled THEN faults ELSE faults - 1

\* a worker's locals when it is between items
Reset(w) ==
    /\ item' = [item EXCEPT ![w] = <<>>]
    /\ node' = [node EXCEPT ![w] = NoNode]
    /\ idx' = [idx EXCEPT ![w] = 0]
    /\ records' = [records EXCEPT ![w] = NoRecords]
    /\ err' = [err EXCEPT ![w] = FALSE]
    /\ calls' = [calls EXCEPT ![w] = <<>>]
    /\ outcomes' = [outcomes EXCEPT ![w] = <<>>]

\* reconcile returns: the worker goes on to AddRateLimited or Forget, then Done
Return(w, failed) ==
    /\ pc' = [pc EXCEPT ![w] = "finish"]
    /\ err' = [err EXCEPT ![w] = failed]

\* item, shutdown := r.queue.Get(): an item when the queue holds one; when it is
\* empty the call blocks, and returns shutdown once ShutDown has been called
Get(w) ==
    /\ pc[w] = "idle"
    /\ IF queue # <<>>
       THEN /\ item' = [item EXCEPT ![w] = Head(queue)]
            /\ SetQueue(QGet(TheQueue))
            /\ pc' = [pc EXCEPT ![w] = "reconcile"]
       ELSE /\ shutdown
            /\ pc' = [pc EXCEPT ![w] = "exited"]
            /\ UNCHANGED <<item, queue, dirty, processing>>
    /\ UNCHANGED <<nameVars, routeVars, limiterVars, pollerVars,
                   provider, annotations, tailnet, changes, faults, nodeCache, delayed, zone,
                   node, idx, records, err, calls, outcomes, fetched, pass, prev, cancelled,
                   shutdown, run>>

\* the key is a deletion key
IsDeleteKey(key) == HasSuffix(key, DeleteSuffix)

\* the node ids the API may report: any non-empty string, one that ends in
\* ":delete" included
RouteIds == Strings({"1", "2", ":delete"}, MaxIdLen) \ {<<>>}

\* syncNodes queues the key of the intent it detected: node.ID for an upsert,
\* id + ":delete" for a deletion
Emit ==
    /\ routed.stage = "detected"
    /\ routed' = [routed EXCEPT !.stage = "queued",
                                !.key = IF intent.deletion THEN DeleteKey(intent.id)
                                                           ELSE UpsertKey(intent.id)]
    /\ UNCHANGED <<nameVars, intent, limiterVars, pollerVars,
                   provider, annotations, tailnet, changes, faults, nodeCache, queue, dirty,
                   processing, delayed, zone, pc, item, node, idx, records, err, calls,
                   outcomes, fetched, pass, prev, cancelled, shutdown, run>>

\* reconcile routes the key: to deleteNodeDNS with the trimmed key as node id
\* when the key ends in ":delete", to the upsert path with the key as node id
\* otherwise
Route ==
    /\ routed.stage = "queued"
    /\ routed' = [routed EXCEPT !.stage = "routed",
                                !.deletion = IsDeleteKey(routed.key),
                                !.id = IF IsDeleteKey(routed.key)
                                       THEN TrimSuffix(routed.key, DeleteSuffix)
                                       ELSE routed.key]
    /\ UNCHANGED <<nameVars, intent, limiterVars, pollerVars,
                   provider, annotations, tailnet, changes, faults, nodeCache, queue, dirty,
                   processing, delayed, zone, pc, item, node, idx, records, err, calls,
                   outcomes, fetched, pass, prev, cancelled, shutdown, run>>

\* syncNodes detects the next intent
NextIntent ==
    /\ routed.stage = "routed"
    /\ intent' \in [id : RouteIds, deletion : BOOLEAN]
    /\ routed' = NotRouted
    /\ UNCHANGED <<nameVars, limiterVars, pollerVars,
                   provider, annotations, tailnet, changes, faults, nodeCache, queue, dirty,
                   processing, delayed, zone, pc, item, node, idx, records, err, calls,
                   outcomes, fetched, pass, prev, cancelled, shutdown, run>>

\* a variant of Resolve and Filter that drops a node the filter skips from the
\* cache
ResolveNodeEvicting(w) ==
    /\ pc[w] = "reconcile"
    /\ ~IsDeleteKey(item[w])
    /\ IF item[w] \notin DOMAIN nodeCache
       THEN Return(w, TRUE) /\ UNCHANGED <<node, idx, nodeCache>>
       ELSE /\ node' = [node EXCEPT ![w] = nodeCache[item[w]]]
            /\ IF ~shouldManageNode(annotations, nodeCache[item[w]])
               THEN /\ Return(w, FALSE)
                    /\ nodeCache' = CacheRemove(nodeCache, {item[w]})
                    /\ UNCHANGED idx
               ELSE /\ idx' = [idx EXCEPT ![w] = 1]
                    /\ pc' = [pc EXCEPT ![w] = "publish"]
                    /\ UNCHANGED <<err, nodeCache>>
    /\ UNCHANGED <<nameVars, routeVars, limiterVars, pollerVars,
                   provider, annotations, tailnet, changes, faults, queue, dirty,
                   processing, delayed, zone, item, records, calls, outcomes, fetched, pass,
                   prev, cancelled, shutdown, run>>

\* a variant of Resolve and Filter that returns nil for a node that is not in
\* the cache
ResolveNodeSkipping(w) ==
    /\ pc[w] = "reconcile"
    /\ ~IsDeleteKey(item[w])
    /\ IF item[w] \notin DOMAIN nodeCache
       THEN Return(w, FALSE) /\ UNCHANGED <<node, idx>>
       ELSE /\ node' = [node EXCEPT ![w] = nodeCache[item[w]]]
            /\ IF ~shouldManageNode(annotations, nodeCache[item[w]])
               THEN Return(w, FALSE) /\ UNCHANGED idx
               ELSE /\ idx' = [idx EXCEPT ![w] = 1]
                    /\ pc' = [pc EXCEPT ![w] = "publish"]
                    /\ UNCHANGED err
    /\ UNCHANGED <<nameVars, routeVars, limiterVars, pollerVars,
                   provider, annotations, tailnet, changes, faults, nodeCache, queue, dirty,
                   processing, delayed, zone, item, records, calls, outcomes, fetched, pass,
                   prev, cancelled, shutdown, run>>

\* reconcile of an upsert key: Resolve and Filter
ResolveNode(w) ==
    /\ pc[w] = "reconcile"
    /\ ~IsDeleteKey(item[w])
    /\ IF item[w] \notin DOMAIN nodeCache
       THEN Return(w, TRUE) /\ UNCHANGED <<node, idx, cancelled, shutdown, run>>
       ELSE /\ node' = [node EXCEPT ![w] = nodeCache[item[w]]]
            /\ IF ~shouldManageNode(annotations, nodeCache[item[w]])
               THEN Return(w, FALSE) /\ UNCHANGED idx
               ELSE /\ idx' = [idx EXCEPT ![w] = 1]
                    /\ pc' = [pc EXCEPT ![w] = "publish"]
                    /\ UNCHANGED err
    /\ UNCHANGED <<nameVars, routeVars, limiterVars, pollerVars,
                   provider, annotations, tailnet, changes, faults, nodeCache, queue, dirty,
                   processing, delayed, zone, item, records, calls, outcomes, fetched, pass,
                   prev, cancelled, shutdown, run>>

\* reconcile of an upsert key: r.cacheMutex.RLock() returns once no writer holds
\* the lock
RLock(w) ==
    /\ pc[w] = "reconcile"
    /\ ~IsDeleteKey(item[w])
    /\ ~cacheMutex.writer
    /\ cacheMutex' = [cacheMutex EXCEPT !.readers = @ \cup {w}]
    /\ pc' = [pc EXCEPT ![w] = "lookup"]
    /\ UNCHANGED <<nameVars, routeVars, limiterVars, watcher, ticks, sync,
                   provider, annotations, tailnet, changes, faults, nodeCache, queue, dirty,
                   processing, delayed, zone, item, node, idx, records, err, calls,
                   outcomes, fetched, pass, prev, cancelled, shutdown, run>>

\* reconcile of an upsert key: the lookup under the read lock, RUnlock, then
\* Resolve and Filter on the copy
Lookup(w) ==
    /\ pc[w] = "lookup"
    /\ cacheMutex' = [cacheMutex EXCEPT !.readers = @ \ {w}]
    /\ IF item[w] \notin DOMAIN nodeCache
       THEN Return(w, TRUE) /\ UNCHANGED <<node, idx>>
       ELSE /\ node' = [node EXCEPT ![w] = nodeCache[item[w]]]
            /\ IF ~shouldManageNode(annotations, nodeCache[item[w]])
               THEN Return(w, FALSE) /\ UNCHANGED idx
               ELSE /\ idx' = [idx EXCEPT ![w] = 1]
                    /\ pc' = [pc EXCEPT ![w] = "publish"]
                    /\ UNCHANGED err
    /\ UNCHANGED <<nameVars, routeVars, limiterVars, watcher, ticks, sync,
                   provider, annotations, tailnet, changes, faults, nodeCache, queue, dirty,
                   processing, delayed, zone, item, records, calls, outcomes, fetched, pass,
                   prev, cancelled, shutdown, run>>

\* reconcile: UpdateRecord for the next address succeeds
PublishAddress(w) ==
    /\ pc[w] = "publish"
    /\ ~cancelled
    /\ idx[w] <= Len(node[w].addresses)
    /\ LET rec == AddressRecord(node[w], node[w].addresses[idx[w]])
       IN /\ ~UpdateRejected(provider, rec)
          /\ zone' \in UpdateRecord(provider, zone, rec, node[w].id)
          /\ calls' = [calls EXCEPT ![w] = Append(@, Call("update", rec))]
          /\ outcomes' = [outcomes EXCEPT ![w] = Append(@, "ok")]
    /\ idx' = [idx EXCEPT ![w] = @ + 1]
    /\ UNCHANGED <<nameVars, routeVars, limiterVars, pollerVars,
                   provider, annotations, tailnet, changes, faults, nodeCache, queue, dirty,
                   processing, delayed, pc, item, node, records, err, fetched, pass, prev,
                   cancelled, shutdown, run>>

\* reconcile: UpdateRecord for the next address fails, reconcile returns the error
PublishAddressFails(w) ==
    /\ pc[w] = "publish"
    /\ idx[w] <= Len(node[w].addresses)
    /\ CallFails
    /\ LET rec == AddressRecord(node[w], node[w].addresses[idx[w]])
       IN /\ zone' \in UpdateFailed(provider, zone, rec)
          /\ calls' = [calls EXCEPT ![w] = Append(@, Call("update", rec))]
          /\ outcomes' = [outcomes EXCEPT ![w] = Append(@, "error")]
    /\ Return(w, TRUE)
    /\ UNCHANGED <<nameVars, routeVars, limiterVars, pollerVars,
                   provider, annotations, tailnet, changes, nodeCache, queue, dirty,
                   processing, delayed, item, node, idx, records, fetched, pass, prev,
                   cancelled, shutdown, run>>

\* reconcile: UpdateRecord for the ownership TXT record succeeds
PublishOwnership(w) ==
    /\ pc[w] = "publish"
    /\ ~cancelled
    /\ idx[w] > Len(node[w].addresses)
    /\ LET rec == OwnershipRecord(node[w])
       IN /\ ~UpdateRejected(provider, rec)
          /\ zone' \in UpdateRecord(provider, zone, rec, node[w].id)
          /\ calls' = [calls EXCEPT ![w] = Append(@, Call("update", rec))]
          /\ outcomes' = [outcomes EXCEPT ![w] = Append(@, "ok")]
    /\ Return(w, FALSE)
    /\ UNCHANGED <<nameVars, routeVars, limiterVars, pollerVars,
                   provider, annotations, tailnet, changes, faults, nodeCache, queue, dirty,
                   processing, delayed, item, node, idx, records, fetched, pass, prev,
                   cancelled, shutdown, run>>

\* reconcile: the provider rejects the ownership TXT record; logged, not returned
PublishOwnershipRejected(w) ==
    /\ pc[w] = "publish"
    /\ idx[w] > Len(node[w].addresses)
    /\ UpdateRejected(provider, OwnershipRecord(node[w]))
    /\ calls' = [calls EXCEPT ![w] = Append(@, Call("update", OwnershipRecord(node[w])))]
    /\ outcomes' = [outcomes EXCEPT ![w] = Append(@, "error")]
    /\ Return(w, FALSE)
    /\ UNCHANGED <<nameVars, routeVars, limiterVars, pollerVars,
                   provider, annotations, tailnet, changes, faults, nodeCache, queue, dirty,
                   processing, delayed, zone, item, node, idx, records, fetched, pass, prev,
                   cancelled, shutdown, run>>

\* a variant of the failed ownership update that returns the error
PublishOwnershipFailsReturned(w) ==
    /\ pc[w] = "publish"
    /\ idx[w] > Len(node[w].addresses)
    /\ ~UpdateRejected(provider, OwnershipRecord(node[w]))
    /\ CallFails
    /\ zone' \in UpdateFailed(provider, zone, OwnershipRecord(node[w]))
    /\ calls' = [calls EXCEPT ![w] = Append(@, Call("update", OwnershipRecord(node[w])))]
    /\ outcomes' = [outcomes EXCEPT ![w] = Append(@, "error")]
    /\ Return(w, TRUE)
    /\ UNCHANGED <<nameVars, routeVars, limiterVars, pollerVars,
                   provider, annotations, tailnet, changes, nodeCache, queue, dirty,
                   processing, delayed, item, node, idx, records, fetched, pass, prev,
                   cancelled, shutdown, run>>

\* reconcile: UpdateRecord for the ownership TXT record fails; logged, not returned
PublishOwnershipFails(w) ==
    /\ pc[w] = "publish"
    /\ idx[w] > Len(node[w].addresses)
    /\ ~UpdateRejected(provider, OwnershipRecord(node[w]))
    /\ CallFails
    /\ zone' \in UpdateFailed(provider, zone, OwnershipRecord(node[w]))
    /\ calls' = [calls EXCEPT ![w] = Append(@, Call("update", OwnershipRecord(node[w])))]
    /\ outcomes' = [outcomes EXCEPT ![w] = Append(@, "error")]
    /\ Return(w, FALSE)
    /\ UNCHANGED <<nameVars, routeVars, limiterVars, pollerVars,
                   provider, annotations, tailnet, changes, nodeCache, queue, dirty,
                   processing, delayed, item, node, idx, records, fetched, pass, prev,
                   cancelled, shutdown, run>>

\* deleteNodeDNS: the listed TXT records that embed the node id
Matches(listed, nodeID) == {r \in listed : IsOwnershipOf(r, nodeID)}

\* a variant of the inner loop that also compares the record type
SweepSetOfType(listed, first) ==
    {r \in listed : r.name = first.name /\ r.type = first.type}

\* deleteNodeDNS' inner loop: the listed records named like the matching record
SweepSet(listed, first) == {r \in listed : r.name = first.name}

\* deleteNodeDNS: ListRecords succeeds; Scan and Match.  The backend fixes the
\* order of the list: any matching TXT record can be the first one found, and
\* the records named like it come in any order.
ScanRecords(w) ==
    /\ pc[w] = "reconcile"
    /\ IsDeleteKey(item[w])
    /\ ~cancelled
    /\ LET listed == ListRecords(provider, zone)
           hits == Matches(listed, TrimSuffix(item[w], DeleteSuffix))
       IN IF hits = {}
          THEN /\ Return(w, FALSE)
               /\ records' = [records EXCEPT ![w] = [listed |-> listed, sweep |-> <<>>]]
               /\ UNCHANGED idx
          ELSE \E first \in hits :
                 \E sweep \in Orders(SweepSet(listed, first)) :
                    /\ records' = [records EXCEPT ![w] = [listed |-> listed, sweep |-> sweep]]
                    /\ idx' = [idx EXCEPT ![w] = 1]
                    /\ pc' = [pc EXCEPT ![w] = "sweep"]
                    /\ UNCHANGED err
    /\ calls' = [calls EXCEPT ![w] = Append(@, Call("list", <<>>))]
    /\ outcomes' = [outcomes EXCEPT ![w] = Append(@, "ok")]
    /\ UNCHANGED <<nameVars, routeVars, limiterVars, pollerVars,
                   provider, annotations, tailnet, changes, faults, nodeCache, queue, dirty,
                   processing, delayed, zone, item, node, fetched, pass, prev, cancelled,
                   shutdown, run>>

\* deleteNodeDNS: ListRecords fails, the error is returned
ScanRecordsFails(w) ==
    /\ pc[w] = "reconcile"
    /\ IsDeleteKey(item[w])
    /\ CallFails
    /\ calls' = [calls EXCEPT ![w] = Append(@, Call("list", <<>>))]
    /\ outcomes' = [outcomes EXCEPT ![w] = Append(@, "error")]
    /\ Return(w, TRUE)
    /\ UNCHANGED <<nameVars, routeVars, limiterVars, pollerVars,
                   provider, annotations, tailnet, changes, nodeCache, queue, dirty,
                   processing, delayed, zone, item, node, idx, records, fetched, pass, prev,
                   cancelled, shutdown, run>>

\* after the last record of the sweep, deleteNodeDNS returns nil
SweepNext(w) ==
    IF idx[w] = Len(records[w].sweep)
    THEN Return(w, FALSE) /\ UNCHANGED idx
    ELSE idx' = [idx EXCEPT ![w] = @ + 1] /\ UNCHANGED <<pc, err, cancelled, shutdown, run>>

\* deleteNodeDNS: DeleteRecord for the next record of the sweep succeeds
SweepRecord(w) ==
    /\ pc[w] = "sweep"
    /\ ~cancelled
    /\ zone' \in DeleteRecord(provider, zone, records[w].sweep[idx[w]])
    /\ calls' = [calls EXCEPT ![w] = Append(@, Call("delete", records[w].sweep[idx[w]]))]
    /\ outcomes' = [outcomes EXCEPT ![w] = Append(@, "ok")]
    /\ SweepNext(w)
    /\ UNCHANGED <<nameVars, routeVars, limiterVars, pollerVars,
                   provider, annotations, tailnet, changes, faults, nodeCache, queue, dirty,
                   processing, delayed, item, node, records, fetched, pass, prev, cancelled,
                   shutdown, run>>

\* a variant of the failed delete that ends the sweep and returns the error
SweepRecordFailsReturned(w) ==
    /\ pc[w] = "sweep"
    /\ CallFails
    /\ calls' = [calls EXCEPT ![w] = Append(@, Call("delete", records[w].sweep[idx[w]]))]
    /\ outcomes' = [outcomes EXCEPT ![w] = Append(@, "error")]
    /\ Return(w, TRUE)
    /\ UNCHANGED <<nameVars, routeVars, limiterVars, pollerVars,
                   provider, annotations, tailnet, changes, nodeCache, queue, dirty,
                   processing, delayed, zone, item, node, idx, records, fetched, pass, prev,
                   cancelled, shutdown, run>>

\* deleteNodeDNS: DeleteRecord fails; logged, the sweep goes on
SweepRecordFails(w) ==
    /\ pc[w] = "sweep"
    /\ CallFails
    /\ calls' = [calls EXCEPT ![w] = Append(@, Call("delete", records[w].sweep[idx[w]]))]
    /\ outcomes' = [outcomes EXCEPT ![w] = Append(@, "error")]
    /\ SweepNext(w)
    /\ UNCHANGED <<nameVars, routeVars, limiterVars, pollerVars,
                   provider, annotations, tailnet, changes, nodeCache, queue, dirty,
                   processing, delayed, zone, item, node, records, fetched, pass, prev,
                   cancelled, shutdown, run>>

\* a variant of the worker that calls Forget whatever reconcile returned
CompleteForgetting(w, observe) ==
    /\ pc[w] = "finish"
    /\ UNCHANGED delayed
    /\ SetQueue(QDone(TheQueue, item[w]))
    /\ pc' = [pc EXCEPT ![w] = "idle"]
    /\ Reset(w)
    /\ prev' = IF observe
               THEN [key |-> item[w], node |-> node[w], calls |-> calls[w], zone |-> zone,
                     failed |-> err[w]]
               ELSE prev
    /\ UNCHANGED <<nameVars, routeVars, limiterVars, pollerVars,
                   provider, annotations, tailnet, changes, faults, nodeCache, zone,
                   fetched, pass, cancelled, shutdown, run>>

\* a variant of the worker whose AddRateLimited drops the backoffs already running
CompleteResetting(w, observe) ==
    /\ pc[w] = "finish"
    /\ delayed' = IF err[w] THEN {item[w]} ELSE delayed
    /\ SetQueue(QDone(TheQueue, item[w]))
    /\ pc' = [pc EXCEPT ![w] = "idle"]
    /\ Reset(w)
    /\ prev' = IF observe
               THEN [key |-> item[w], node |-> node[w], calls |-> calls[w], zone |-> zone,
                     failed |-> err[w]]
               ELSE prev
    /\ UNCHANGED <<nameVars, routeVars, limiterVars, pollerVars,
                   provider, annotations, tailnet, changes, faults, nodeCache, zone,
                   fetched, pass, cancelled, shutdown, run>>

\* the rate limiter's delays, in units of its base delay
BaseDelay == 1
MaxDelay == 4

RECURSIVE Pow2(_)
Pow2(n) == IF n = 0 THEN 1 ELSE 2 * Pow2(n - 1)

\* the delay for a key that has failed n times since its last Forget
ItemDelay(n) ==
    IF BaseDelay * Pow2(n) > MaxDelay THEN MaxDelay ELSE BaseDelay * Pow2(n)

\* a variant of Forget that keeps the failure count
ForgetNothing(f, k) == f

\* queue.Forget(item): the key's failure count starts again
Forget(f, k) == [f EXCEPT ![k] = 0]

\* a variant of the worker that returns to queue.Get without the deferred Done
CompleteWithoutDone(w, observe, count) ==
    /\ pc[w] = "finish"
    /\ (count /\ err[w]) => failures[item[w]] < MaxFailures
    /\ failures' = IF ~count THEN failures
                   ELSE IF err[w] THEN [failures EXCEPT ![item[w]] = @ + 1]
                   ELSE Forget(failures, item[w])
    /\ delay' = IF count /\ err[w]
                THEN [delay EXCEPT ![item[w]] = ItemDelay(failures[item[w]])]
                ELSE delay
    /\ delayed' = IF err[w] THEN delayed \cup {item[w]} ELSE delayed
    /\ UNCHANGED <<queue, dirty, processing>>
    /\ pc' = [pc EXCEPT ![w] = "idle"]
    /\ Reset(w)
    /\ prev' = IF observe
               THEN [key |-> item[w], node |-> node[w], calls |-> calls[w], zone |-> zone,
                     failed |-> err[w]]
               ELSE prev
    /\ UNCHANGED <<nameVars, routeVars, pollerVars,
                   provider, annotations, tailnet, changes, faults, nodeCache, zone,
                   fetched, pass, cancelled, shutdown, run>>

\* worker: AddRateLimited on an error, Forget otherwise; then the deferred Done;
\* `observe` says whether the reconcile that returned is recorded in `prev`,
\* `count` whether the rate limiter's failure counts and delays are followed
CompleteWith(w, observe, count) ==
    /\ pc[w] = "finish"
    /\ (count /\ err[w]) => failures[item[w]] < MaxFailures
    /\ failures' = IF ~count THEN failures
                   ELSE IF err[w] THEN [failures EXCEPT ![item[w]] = @ + 1]
                   ELSE Forget(failures, item[w])
    /\ delay' = IF count /\ err[w]
                THEN [delay EXCEPT ![item[w]] = ItemDelay(failures[item[w]])]
                ELSE delay
    /\ delayed' = IF err[w] THEN delayed \cup {item[w]} ELSE delayed
    /\ SetQueue(QDone(TheQueue, item[w]))
    /\ pc' = [pc EXCEPT ![w] = "idle"]
    /\ Reset(w)
    /\ prev' = IF observe
               THEN [key |-> item[w], node |-> node[w], calls |-> calls[w], zone |-> zone,
                     failed |-> err[w]]
               ELSE prev
    /\ UNCHANGED <<nameVars, routeVars, pollerVars,
                   provider, annotations, tailnet, changes, faults, nodeCache, zone,
                   fetched, pass, cancelled, shutdown, run>>

Complete(w, observe) == CompleteWith(w, observe, FALSE)

Finish(w) == Complete(w, FALSE)

FinishObserved(w) == Complete(w, TRUE)

\* the worker's completion with the rate limiter followed
FinishCounted(w) == CompleteWith(w, FALSE, TRUE)

\* the backoff of a rate-limited key ends: the delaying queue calls Add
RequeueKey(k) ==
    /\ k \in delayed
    /\ delayed' = delayed \ {k}
    /\ SetQueue(QAdd(TheQueue, k))
    /\ UNCHANGED <<nameVars, routeVars, limiterVars, pollerVars,
                   provider, annotations, tailnet, changes, faults, nodeCache, zone,
                   pc, item, node, idx, records, err, calls, outcomes, fetched, pass,
                   prev, cancelled, shutdown, run>>

Requeue == \E k \in delayed : RequeueKey(k)

--------------------------------------------------------------------------
(* Run: cancellation *)

\* the ctx handed to Run is cancelled
Cancel ==
    /\ ~cancelled
    /\ cancelled' = TRUE
    /\ UNCHANGED <<nameVars, routeVars, limiterVars, pollerVars,
                   provider, annotations, tailnet, changes, faults, nodeCache, queue, dirty,
                   processing, delayed, zone, pc, item, node, idx, records, err, calls,
                   outcomes, fetched, pass, prev, shutdown, run>>

\* Run after <-ctx.Done(): wg.Wait(), then return ctx.Err() and the deferred
\* r.queue.ShutDown()
RunReturn ==
    /\ cancelled
    /\ IF run = "serving"
       THEN run' = "waiting" /\ UNCHANGED shutdown
       ELSE /\ run = "waiting"
            /\ \A w \in Workers : pc[w] = "exited"
            /\ run' = "returned"
            /\ shutdown' = TRUE
    /\ UNCHANGED <<nameVars, routeVars, limiterVars, pollerVars,
                   provider, annotations, tailnet, changes, faults, nodeCache, queue, dirty,
                   processing, delayed, zone, pc, item, node, idx, records, err, calls,
                   outcomes, fetched, pass, prev, cancelled>>

--------------------------------------------------------------------------

\* the steps of a worker whose backend calls meet no transport error
WorkerStep(w) ==
    \/ Get(w)
    \/ ResolveNode(w)
    \/ PublishAddress(w)
    \/ PublishOwnership(w)
    \/ PublishOwnershipRejected(w)
    \/ ScanRecords(w)
    \/ SweepRecord(w)
    \/ Finish(w)

\* the steps of a worker in which a backend call fails
WorkerFault(w) ==
    \/ PublishAddressFails(w)
    \/ PublishOwnershipFails(w)
    \/ ScanRecordsFails(w)
    \/ SweepRecordFails(w)

\* the engine as configured by default (app.workers: 2)
Next ==
    \/ Join
    \/ Leave
    \/ Change
    \/ SyncNodes
    \/ SyncNodesFails
    \/ Requeue
    \/ \E w \in Workers : WorkerStep(w) \/ WorkerFault(w)

Init == Start(MaxChanges, MaxFaults)

Spec == Init /\ [][Next]_vars

\* the engine with one worker (app.workers: 1) and a backend that answers every
\* call; `prev` records each reconcile that returned
SeqNext ==
    \/ Join
    \/ Leave
    \/ Change
    \/ SyncNodes
    \/ Requeue
    \/ Get(1)
    \/ ResolveNode(1)
    \/ PublishAddress(1)
    \/ PublishOwnership(1)
    \/ PublishOwnershipRejected(1)
    \/ ScanRecords(1)
    \/ SweepRecord(1)
    \/ FinishObserved(1)

SeqSpec == Start(MaxChanges, 0) /\ [][SeqNext]_vars

\* the one-worker engine through a longer history of the tailnet
ChurnSpec == Start(MaxChurn, 0) /\ [][SeqNext]_vars

\* the poller alone, before any worker has taken a key; `pass` records each pass
SyncNext ==
    \/ Join
    \/ Leave
    \/ Change
    \/ SyncNodesObserved
    \/ SyncNodesFailsObserved

SyncSpec == Start(MaxSyncChanges, 0) /\ [][SyncNext]_vars

\* the one-worker engine under the scheduling the code gives it: the ticker
\* keeps firing, the worker loops on queue.Get, a backoff ends
WorkerNext ==
    \/ Get(1)
    \/ ResolveNode(1)
    \/ PublishAddress(1)
    \/ PublishOwnership(1)
    \/ PublishOwnershipRejected(1)
    \/ ScanRecords(1)
    \/ SweepRecord(1)
    \/ FinishObserved(1)

LiveSpec ==
    /\ Start(MaxChanges, 0)
    /\ [][SeqNext]_vars
    /\ WF_vars(SyncNodes)
    /\ WF_vars(WorkerNext)
    /\ WF_vars(Requeue)

\* the one-worker engine with a backend whose calls can fail, in a tailnet whose
\* devices leave and go on and off line
FaultNext ==
    \/ Leave
    \/ Flip
    \/ SyncNodes
    \/ Requeue
    \/ WorkerStep(1)
    \/ WorkerFault(1)

FaultSpec == Start(MaxChanges, MaxFaults) /\ [][FaultNext]_vars

\* the change keys of the universe
\* ListNodes converting the devices of an answer, one after the other, before
\* the engine has seen any of them
NameNext == ToTailscaleNode \/ NextDevice

NameInit ==
    /\ StartEngine(0, 0)
    /\ provider = "route53" /\ annotations = {} /\ tailnet = <<>>
    /\ device \in ApiDevices
    /\ converted = NotConverted
    /\ NoRouting

NameSpec == NameInit /\ [][NameNext]_vars

\* the keys syncNodes queues, each routed by reconcile, for every node id the
\* API may report
RouteNext == Emit \/ Route \/ NextIntent

RouteInit ==
    /\ StartEngine(0, 0)
    /\ provider = "route53" /\ annotations = {} /\ tailnet = <<>>
    /\ NoConversion
    /\ intent \in [id : RouteIds, deletion : BOOLEAN]
    /\ routed = NotRouted

RouteSpec == RouteInit /\ [][RouteNext]_vars

\* the one-worker engine with a failing backend and its rate limiter
BackoffNext ==
    \/ Leave
    \/ SyncNodes
    \/ Requeue
    \/ Get(1)
    \/ ResolveNode(1)
    \/ PublishAddress(1)
    \/ PublishOwnership(1)
    \/ PublishOwnershipRejected(1)
    \/ ScanRecords(1)
    \/ SweepRecord(1)
    \/ WorkerFault(1)
    \/ FinishCounted(1)

BackoffSpec == Start(MaxChanges, MaxFaults) /\ [][BackoffNext]_vars

\* the poller under the ticker and the cancellation of Run's ctx, before any
\* worker has taken a key
PollNext ==
    \/ Leave
    \/ Flip
    \/ Tick
    \/ Cancel
    \/ WatchStart
    \/ WatchSelect
    \/ SyncList
    \/ SyncListFails
    \/ SyncLock
    \/ SyncUpsert
    \/ SyncDelete

PollSpec == Start(MaxChanges, 0) /\ [][PollNext]_vars

\* the engine as configured by default with the poller's and the workers' use
\* of the cache lock, in front of the Cloudflare or the Pi-hole backend
LockNext ==
    \/ Leave
    \/ Tick
    \/ WatchStart
    \/ WatchSelect
    \/ SyncList
    \/ SyncLock
    \/ SyncUpsert
    \/ SyncDelete
    \/ Requeue
    \/ \E w \in Workers :
          \/ Get(w)
          \/ RLock(w)
          \/ Lookup(w)
          \/ PublishAddress(w)
          \/ PublishOwnership(w)
          \/ PublishOwnershipRejected(w)
          \/ ScanRecords(w)
          \/ SweepRecord(w)
          \/ Finish(w)

LockInit == Start(MaxChanges, 0) /\ provider \in {"cloudflare", "pihole"}

LockSpec == LockInit /\ [][LockNext]_vars

\* the engine as configured by default whose backend may fail a call, while
\* nodes leave the tailnet
FrameNext ==
    \/ Leave
    \/ SyncNodes
    \/ Requeue
    \/ \E w \in Workers : WorkerStep(w) \/ WorkerFault(w)

FrameSpec == Start(MaxChanges, MaxFaults) /\ [][FrameNext]_vars

\* the one-worker engine with a backend whose calls can fail, in a tailnet whose
\* devices leave, under the scheduling the code gives its worker and its queue:
\* the worker loops on queue.Get, the backoff of each key ends
WorkerLoop == WorkerStep(1) \/ WorkerFault(1)

RetryNext ==
    \/ Leave
    \/ SyncNodes
    \/ Requeue
    \/ WorkerLoop

RetrySpec ==
    /\ Start(MaxChanges, MaxFaults)
    /\ [][RetryNext]_vars
    /\ WF_vars(WorkerLoop)
    /\ \A k \in Keys : WF_vars(RequeueKey(k))

\* the one-worker engine whose worker loops on queue.Get, with a backend that
\* answers every call, in a tailnet whose devices leave and go on and off line;
\* `pass` records each pass and `prev` each reconcile that returned
DeliverNext ==
    \/ Leave
    \/ Flip
    \/ SyncNodesObserved
    \/ Requeue
    \/ WorkerNext

DeliverSpec ==
    /\ Start(MaxChanges, 0)
    /\ [][DeliverNext]_vars
    /\ WF_vars(WorkerNext)

\* the engine with its two workers and a backend that answers every call, in a
\* tailnet whose devices leave and go on and off line
ConcNext ==
    \/ Leave
    \/ Flip
    \/ SyncNodes
    \/ Requeue
    \/ \E w \in Workers : WorkerStep(w)

ConcSpec == Start(MaxChanges, 0) /\ [][ConcNext]_vars

\* Run with its two workers when the ctx is cancelled: every goroutine keeps
\* running as long as it has a step to take
StopNext ==
    \/ Leave
    \/ SyncNodes
    \/ Requeue
    \/ Cancel
    \/ RunReturn
    \/ \E w \in Workers : WorkerStep(w) \/ WorkerFault(w)

StopSpec ==
    /\ Start(MaxChanges, 0)
    /\ [][StopNext]_vars
    /\ WF_vars(RunReturn)
    /\ WF_vars(Requeue)
    /\ \A w \in Workers : WF_vars(WorkerStep(w) \/ WorkerFault(w))

--------------------------------------------------------------------------
(* Properties *)

\* the node id a key carries
KeyId(key) ==
    IF Len(key) > 0 /\ key[Len(key)] = ":delete" THEN SubSeq(key, 1, Len(key) - 1) ELSE key

\* the key asks for a deletion
ForDeletion(key) == Len(key) > 0 /\ key[Len(key)] = ":delete"

\* the node carries a tag of the configured set, or no set is configured
Tagged(n) == annotations = {} \/ \E i \in 1..Len(n.tags) : n.tags[i] \in annotations

\* the address literal contains a colon
HasColon(addr) == \E j \in 1..Len(addr) : addr[j] = ":"

\* the records of the delete_record calls a worker has made in its reconcile
Deleted(w) == {calls[w][j].rec : j \in {i \in 1..Len(calls[w]) : calls[w][i].op = "delete"}}

\* a record carries the engine's ownership marker
IsMarker(r) == r.type = "TXT" /\ \E j \in 1..Len(r.value) : r.value[j] = "dnsscale-managed "

\* C1: a record that exists in the backend, that the engine did not publish and
\* whose name carries no ownership marker of the engine, is neither overwritten
\* nor deleted by any step of the engine.
C1_ForeignRecordsUntouched ==
    [][\A r \in zone :
          (r.by = Foreign /\ ~\E t \in zone : t.name = r.name /\ IsMarker(t))
              => r \in zone']_vars

\* C3: when the reconcile of a deletion key has returned without error, the
\* backend holds no record that the engine published for the key's node id.
C3_RemovedNodeRecordsDeleted ==
    \A w \in Workers :
        (pc[w] = "finish" /\ ForDeletion(item[w]) /\ ~err[w])
            => ~\E r \in zone : r.by = KeyId(item[w])

C5_UpsertCalls ==
    \A w \in Workers :
        (/\ pc[w] = "finish"
         /\ ~ForDeletion(item[w])
         /\ ~err[w]
         /\ node[w] # NoNode
         /\ Tagged(node[w])) =>
            LET n == node[w]
                k == Len(n.addresses)
                name == n.name \o <<".">> \o <<"example", ".", "com">>
            IN /\ Len(calls[w]) = k + 1
               /\ \A i \in 1..k :
                     calls[w][i] =
                        [op |-> "update",
                         rec |-> [name |-> name,
                                  type |-> IF HasColon(n.addresses[i]) THEN "AAAA" ELSE "A",
                                  value |-> n.addresses[i],
                                  ttl |-> 300]]
               /\ calls[w][k + 1] =
                     [op |-> "update",
                      rec |-> [name |-> name,
                               type |-> "TXT",
                               value |-> <<"\"", "dnsscale-managed ", "node_id=">>
                                            \o n.id \o <<"\"">>,
                               ttl |-> 300]]

\* C5's case: a returned upsert of a node with an IPv4 and an IPv6 address
C5_UpsertedBothFamilies ==
    /\ pc[1] = "finish"
    /\ ~ForDeletion(item[1])
    /\ ~err[1]
    /\ node[1] # NoNode
    /\ Tagged(node[1])
    /\ \E i, j \in 1..Len(node[1].addresses) :
          HasColon(node[1].addresses[i]) /\ ~HasColon(node[1].addresses[j])
    /\ Len(calls[1]) = 3

\* the backend holds a record the engine wrote for the node at the node's name
SomeRecordOf(n) ==
    \E r \in zone : r.by = n.id /\ r.name = n.name \o <<".">> \o <<"example", ".", "com">>

\* the membership source reports the node with a required tag that the cached
\* entry of the node lacks: the node gained the tag
GainedTag(i) ==
    /\ i \in DOMAIN tailnet
    /\ i \in DOMAIN nodeCache
    /\ Tagged(tailnet[i])
    /\ ~Tagged(nodeCache[i])

\* C2, for a node that gained a required tag: with every backend call
\* succeeding and once the tailnet has stopped changing (the changes of a run
\* are bounded), eventually every node of the tailnet that passes the tag
\* filter has records in the backend, and keeps them.
C2_GainedTagConverges ==
    <>[](\A i \in IDs : GainedTag(i) => SomeRecordOf(tailnet[i]))

\* the fetched list and the cache hold the same ids and agree on everything but
\* the tags
TagOnlyDiff(cache, nodes) ==
    /\ {nodes[k].id : k \in 1..Len(nodes)} = DOMAIN cache
    /\ \A k \in 1..Len(nodes) :
          /\ cache[nodes[k].id].name = nodes[k].name
          /\ cache[nodes[k].id].online = nodes[k].online
          /\ cache[nodes[k].id].addresses = nodes[k].addresses

\* the step is a sync pass whose ListNodes succeeded
SyncPassStep == changes' = changes /\ pass'.result = "ok" /\ fetched' = NodeList(tailnet)

\* C6: a sync pass whose fetched list differs from the cache in tag lists only
\* emits no change key and adds nothing to the work queue.
C6_TagOnlyEmitsNothing ==
    [][(SyncPassStep /\ TagOnlyDiff(nodeCache, NodeList(tailnet)))
          => (pass'.keys = <<>> /\ queue' = queue /\ dirty' = dirty)]_vars

\* C6's case: a pass has run over a list whose tags differ from the cached ones
C6_PassedOverTagChange ==
    /\ pass.result = "ok"
    /\ pass.keys = <<>>
    /\ fetched = NodeList(tailnet)
    /\ TagOnlyDiff(nodeCache, fetched)
    /\ \E k \in 1..Len(fetched) : nodeCache[fetched[k].id].tags # fetched[k].tags

\* how often a key occurs among the keys of a pass
Occurrences(keys, key) == Cardinality({k \in 1..Len(keys) : keys[k] = key})

\* C7: a sync pass whose ListNodes succeeded emits exactly one deletion key for
\* each cached id the fetched list does not hold and removes that id from the
\* cache; it emits no deletion key for an id the fetched list holds.
C7_OneDeletionKeyPerRemovedId ==
    [][SyncPassStep =>
          \A i \in IDs :
             IF i \in DOMAIN nodeCache /\ i \notin DOMAIN tailnet
             THEN Occurrences(pass'.keys, i \o <<":delete">>) = 1 /\ i \notin DOMAIN nodeCache'
             ELSE i \in DOMAIN tailnet => Occurrences(pass'.keys, i \o <<":delete">>) = 0]_vars

\* C7's case: a pass has emitted the deletion key of an id that left, while
\* another id stayed
C7_EmittedDeletionKey ==
    /\ pass.result = "ok"
    /\ fetched = NodeList(tailnet)
    /\ \E i \in IDs :
          /\ i \notin DOMAIN tailnet
          /\ i \notin DOMAIN nodeCache
          /\ Occurrences(pass.keys, i \o <<":delete">>) = 1
    /\ DOMAIN tailnet # {}

\* C8: in the one-worker engine, an upsert reconcile that follows an upsert
\* reconcile of the same key, both returning without error and both for a node
\* of the same id, name and addresses, has issued the same update_record calls
\* and leaves the backend with the record set the first one left.
C8_UpsertIdempotent ==
    (/\ pc[1] = "finish"
     /\ ~ForDeletion(item[1])
     /\ ~err[1]
     /\ Tagged(node[1])
     /\ prev.key = item[1]
     /\ ~prev.failed
     /\ Tagged(prev.node)
     /\ prev.node.id = node[1].id
     /\ prev.node.name = node[1].name
     /\ prev.node.addresses = node[1].addresses) =>
        /\ calls[1] = prev.calls
        /\ zone = prev.zone

\* C8's case: the second of two such reconciles has returned, having made
\* calls
C8_UpsertedTwice ==
    /\ pc[1] = "finish"
    /\ ~ForDeletion(item[1])
    /\ ~err[1]
    /\ Tagged(node[1])
    /\ prev.key = item[1]
    /\ ~prev.failed
    /\ Tagged(prev.node)
    /\ prev.node.id = node[1].id
    /\ prev.node.name = node[1].name
    /\ prev.node.addresses = node[1].addresses
    /\ Len(calls[1]) >= 2

\* the reconcile of worker w is an upsert that found its node in the cache
UpsertReturned(w) ==
    pc[w] = "finish" /\ ~ForDeletion(item[w]) /\ node[w] # NoNode

\* C9: an upsert reconcile of a cached node that carries none of a non-empty
\* set of required tags returns success without a backend call, and its key is
\* forgotten: the worker does not hand it to AddRateLimited; with an empty set
\* the node is managed: the reconcile calls the backend.
C9_UntaggedNodeSkipped ==
    [][\A w \in Workers :
          /\ (UpsertReturned(w) /\ ~Tagged(node[w])) =>
                /\ calls[w] = <<>>
                /\ ~err[w]
                /\ pc'[w] = "idle" => delayed' = delayed
          /\ (UpsertReturned(w) /\ annotations = {}) => calls[w] # <<>>]_vars

\* C9's case: such a reconcile has returned for a node without the required tag
C9_SkippedUntagged ==
    /\ UpsertReturned(1)
    /\ annotations # {}
    /\ ~Tagged(node[1])
    /\ zone = {ForeignA}

\* the latest fetched list holds the node id with a required tag
TaggedInSnapshot(id) ==
    \E k \in 1..Len(fetched) : fetched[k].id = id /\ Tagged(fetched[k])

\* C10: with a required-tag set configured, the filter admits a node to the
\* update_record calls only if the node carries a required tag in the latest
\* successfully fetched snapshot.
C10_OnlyTaggedPublished ==
    [][\A w \in Workers :
          (annotations # {} /\ pc[w] = "reconcile" /\ pc'[w] = "publish")
              => TaggedInSnapshot(item[w])]_vars

\* C15: once the ctx handed to Run is cancelled, Run terminates: the workers
\* blocked in get() are released, the others finish their item and exit, and
\* Run returns the ctx error.
C15_RunTerminates == cancelled ~> run = "returned"

\* a worker holds an item: it is between queue.Get and queue.Done
InFlight(w) == pc[w] \in {"reconcile", "publish", "sweep", "finish"}

\* C12: no two workers process the same change key at the same time, and a key
\* added again while a worker processes it is held back: it is marked dirty but
\* is not in the queue, so no worker can get it before done(key).
C12_OneWorkerPerKey ==
    /\ \A v, w \in Workers :
          (v # w /\ InFlight(v) /\ InFlight(w)) => item[v] # item[w]
    /\ \A w \in Workers :
          InFlight(w) => ~\E j \in 1..Len(queue) : queue[j] = item[w]

\* a key was added again while one worker processes it, and the other worker
\* waits in get() for an item
C12_HeldBackWhileInFlight ==
    \E v, w \in Workers :
        /\ InFlight(v) /\ item[v] \in dirty
        /\ pc[w] = "idle" /\ queue = <<>>

\* C13: for any node id, the reconcile of its upsert key and the reconcile of
\* its deletion key never run at the same time in two workers.
C13_UpsertAndDeletionExclusive ==
    \A v, w \in Workers :
        (v # w /\ InFlight(v) /\ InFlight(w)) => KeyId(item[v]) # KeyId(item[w])

\* the ids of a node list
ListedIds(nodes) == {nodes[j].id : j \in 1..Len(nodes)}

\* C16: a sync pass whose snapshot fetch returns an error leaves the Node Cache
\* as it was and adds no key to the queue; the pass that follows it fetches the
\* whole snapshot again and brings the cache to it.
C16_FailedPassChangesNothing ==
    [][/\ (tailnet' = tailnet /\ pass'.result = "error")
            => /\ nodeCache' = nodeCache
               /\ queue' = queue /\ dirty' = dirty /\ delayed' = delayed
               /\ fetched' = fetched
       /\ (pass.result = "error" /\ pass'.result = "ok")
            => /\ fetched' = NodeList(tailnet)
               /\ DOMAIN nodeCache' = ListedIds(NodeList(tailnet))]_vars

\* a pass has failed while the cache lags behind the tailnet: a device of the
\* cache has left and a device of the tailnet is not cached yet
C16_FailedWithChangesPending ==
    /\ pass.result = "error"
    /\ DOMAIN nodeCache \ DOMAIN tailnet # {}
    /\ DOMAIN tailnet \ DOMAIN nodeCache # {}

\* reconcile has made its update_record call for the ownership TXT record and
\* the call failed, after every address update of the node succeeded
OwnershipFailed(w) ==
    /\ pc[w] = "finish"
    /\ ~ForDeletion(item[w])
    /\ Len(outcomes[w]) = Len(node[w].addresses) + 1
    /\ outcomes[w][Len(outcomes[w])] = "error"

\* C17: when every address update of an upsert succeeds and the update of the
\* ownership TXT record fails, the failed call leaves the published records in
\* the backend, reconcile returns success, and the worker does not re-queue the
\* key with backoff.
C17_OwnershipFailureIsSuccess ==
    [][\A w \in Workers :
          /\ (pc[w] = "publish" /\ OwnershipFailed(w)') => zone' = zone
          /\ OwnershipFailed(w) => ~err[w]
          /\ (OwnershipFailed(w) /\ pc'[w] = "idle") => delayed' = delayed]_vars

\* on Cloudflare, the A and AAAA updates of a node succeeded, its records are in
\* the zone, and the TXT update met a transport error
C17_OwnershipFailedAfterTwo ==
    /\ provider = "cloudflare"
    /\ OwnershipFailed(1)
    /\ outcomes[1] = <<"ok", "ok", "error">>
    /\ \A j \in 1..2 : \E r \in zone : DNSRecord(r) = calls[1][j].rec

\* deleteNodeDNS has returned after a delete_record call of its sweep failed
DeleteFailed(w) ==
    /\ pc[w] = "finish"
    /\ ForDeletion(item[w])
    /\ \E j \in 1..Len(calls[w]) : calls[w][j].op = "delete" /\ outcomes[w][j] = "error"

\* C18: a delete_record call that fails does not stop the sweep: one delete is
\* still attempted for every listed record of the name, then the reconcile
\* returns success and the worker does not re-queue the key with backoff.
C18_FailedDeleteGoesOn ==
    [][\A w \in Workers :
          DeleteFailed(w) =>
              /\ Len(calls[w]) = Len(records[w].sweep) + 1
              /\ \A j \in 1..Len(records[w].sweep) :
                    calls[w][j + 1] = Call("delete", records[w].sweep[j])
              /\ {records[w].sweep[j] : j \in 1..Len(records[w].sweep)}
                    = {r \in records[w].listed : r.name = records[w].sweep[1].name}
              /\ ~err[w]
              /\ pc'[w] = "idle" => delayed' = delayed]_vars

\* the first delete of a sweep failed, its record is still in the zone, and the
\* deletes of two more records of the name were made after it
C18_WentOnAfterFailure ==
    /\ DeleteFailed(1)
    /\ Len(outcomes[1]) >= 4
    /\ outcomes[1][2] = "error"
    /\ \E r \in zone : DNSRecord(r) = calls[1][2].rec
    /\ \A j \in 3..Len(outcomes[1]) : outcomes[1][j] = "ok"

\* C19: when list_records succeeds and no listed TXT record embeds the node id
\* of the deletion key, the reconcile makes no delete_record call and returns
\* success, and the records of the backend are left as they are at every name.
C19_NoMarkerNoDelete ==
    [][\A w \in Workers :
          /\ (/\ pc[w] = "reconcile" /\ ForDeletion(item[w])
              /\ outcomes'[w] = <<"ok">>
              /\ ~\E r \in ListRecords(provider, zone) :
                    r.type = "TXT" /\ Contains(r.value, <<"node_id=">> \o KeyId(item[w])))
                => /\ pc'[w] = "finish" /\ ~err'[w]
                   /\ calls'[w] = <<Call("list", <<>>)>>
                   /\ zone' = zone
          /\ (/\ pc[w] = "finish" /\ ForDeletion(item[w])
              /\ calls[w] = <<Call("list", <<>>)>> /\ outcomes[w] = <<"ok">>
              /\ pc'[w] = "idle")
                => zone' = zone /\ delayed' = delayed]_vars

\* on Cloudflare, the deletion of one node has returned without a delete call
\* while a record of the removed node and the marker of another node are listed
C19_ReturnedWithoutDelete ==
    /\ provider = "cloudflare"
    /\ pc[1] = "finish" /\ ForDeletion(item[1])
    /\ calls[1] = <<Call("list", <<>>)>> /\ outcomes[1] = <<"ok">>
    /\ \E r \in records[1].listed : r.type = "TXT"
    /\ \E r \in zone : r.by = KeyId(item[1])

\* C20: the ids of the Node Cache are the ids of the last snapshot a sync pass
\* fetched, and the set of cached ids changes only in a sync pass: the step
\* that changes it fetches the current list and is no step of a worker.
C20_CacheIdsAreSnapshotIds ==
    /\ [](DOMAIN nodeCache = ListedIds(fetched))
    /\ [][DOMAIN nodeCache' # DOMAIN nodeCache
            => /\ fetched' = NodeList(tailnet)
               /\ pc' = pc /\ item' = item /\ calls' = calls /\ zone' = zone]_vars

\* both workers are in a reconcile, one of them for a deletion key, while the
\* cache holds exactly the node that stayed in the tailnet
C20_CacheFollowedSnapshot ==
    /\ \A w \in Workers : InFlight(w)
    /\ \E w \in Workers : ForDeletion(item[w]) /\ KeyId(item[w]) \notin DOMAIN nodeCache
    /\ DOMAIN nodeCache = DOMAIN tailnet
    /\ Cardinality(DOMAIN nodeCache) = 1

\* C11: whenever a reconcile returns an error, the worker re-queues the same
\* key with backoff and the key is delivered to a worker again; there is no
\* limit on the attempts and the key is never dropped.
C11_FailedKeyDeliveredAgain ==
    \A k \in Keys :
        (\E w \in Workers : pc[w] = "finish" /\ err[w] /\ item[w] = k)
            ~> (\E w \in Workers : pc[w] = "reconcile" /\ item[w] = k)

\* no device has changed since the engine started, so each key was emitted
\* once; an earlier reconcile of node 1 published its A record and failed on
\* its AAAA record, and the key of node 1 is in the worker's hands again
C11_DeliveredAfterFailure ==
    /\ changes = MaxChanges
    /\ provider = "cloudflare"
    /\ pc[1] = "reconcile" /\ item[1] = UpsertKey(Id1)
    /\ Id1 \in DOMAIN nodeCache /\ nodeCache[Id1].addresses = <<V4a, V6a>>
    /\ \E r \in zone : r.by = Id1 /\ r.type = "A"
    /\ ~\E r \in zone : r.by = Id1 /\ r.type \in {"AAAA", "TXT"}

\* C14: every change key a sync pass emits is pending in the queue after the
\* pass, and every pending key is eventually handed to a worker: adds of a key
\* that is already pending collapse into one delivery, never into none.
C14_EmittedKeyDelivered ==
    /\ [][nodeCache' # nodeCache
            => \A j \in 1..Len(pass'.keys) : pass'.keys[j] \in dirty']_vars
    /\ \A k \in Keys :
          k \in dirty ~> (\E w \in Workers : pc[w] = "reconcile" /\ item[w] = k)

\* two passes have emitted the key of the same node before the worker took its
\* first item (the last pass emitted it alone, the other node was cached by an
\* earlier pass), and the key is in the worker's hands once, with no copy left
C14_BurstDeliveredOnce ==
    /\ prev = NoRun
    /\ pass.keys = <<UpsertKey(Id1)>>
    /\ Id12 \in DOMAIN nodeCache
    /\ pc[1] = "reconcile" /\ item[1] = UpsertKey(Id1)
    /\ UpsertKey(Id1) \notin dirty
    /\ queue = <<UpsertKey(Id12)>>

\* C23: the reconcile of an upsert key calls the backend only through
\* update_record, and the reconcile of a deletion key only through
\* list_records and delete_record.
C23_PathsCallTheirOperations ==
    \A w \in Workers : \A j \in 1..Len(calls[w]) :
        IF ForDeletion(item[w])
        THEN calls[w][j].op \in {"list", "delete"}
        ELSE calls[w][j].op = "update"

\* one worker has published the three records of a node while the other has
\* listed the zone and deleted a record for a deletion key
C23_BothPathsCalled ==
    \E v, w \in Workers :
        /\ ~ForDeletion(item[v]) /\ Len(calls[v]) = 3
        /\ ForDeletion(item[w]) /\ Len(calls[w]) >= 2

\* C27: the reconcile of an upsert key whose node id is not in the Node Cache
\* returns an error without a backend call, and the worker re-queues the key
\* with backoff, as it does for every reconcile that returned an error.
C27_NotFoundIsRetried ==
    [][\A w \in Workers :
          /\ (/\ pc[w] = "reconcile" /\ ~ForDeletion(item[w])
              /\ item[w] \notin DOMAIN nodeCache
              /\ pc'[w] # "reconcile")
                => /\ pc'[w] = "finish" /\ err'[w]
                   /\ calls'[w] = <<>> /\ zone' = zone
          /\ (pc[w] = "finish" /\ err[w] /\ pc'[w] = "idle")
                => item[w] \in delayed']_vars

\* no backend call of the run has failed; the reconcile of the upsert key of a
\* node that has left the cache has returned an error, with no call made
C27_NotFoundReturned ==
    /\ faults = MaxFaults
    /\ pc[1] = "finish" /\ err[1]
    /\ ~ForDeletion(item[1]) /\ item[1] \notin DOMAIN nodeCache
    /\ calls[1] = <<>>

\* the upsert reconcile of a worker has returned the error of an update_record
\* call
AddressFailed(w) ==
    /\ pc[w] = "finish" /\ err[w]
    /\ ~ForDeletion(item[w])
    /\ calls[w] # <<>>

\* C28: when update_record fails for the i-th address of a node, the upsert
\* reconcile returns an error at once: its calls are the updates of the first
\* i addresses and nothing else, the records published for the earlier
\* addresses are still in the backend, and the next attempt starts at the
\* first address.
C28_FailedAddressStopsUpsert ==
    [][\A w \in Workers :
          /\ AddressFailed(w) =>
                LET i == Len(calls[w])
                IN /\ i <= Len(node[w].addresses)
                   /\ \A j \in 1..i :
                         /\ calls[w][j] = Call("update",
                                               AddressRecord(node[w], node[w].addresses[j]))
                         /\ outcomes[w][j] = IF j = i THEN "error" ELSE "ok"
                   /\ \A j \in 1..(i - 1) : \E r \in zone : DNSRecord(r) = calls[w][j].rec
          /\ (pc[w] = "reconcile" /\ pc'[w] = "publish") => idx'[w] = 1]_vars

\* C29: a successful sync pass emits the upsert key of a fetched node, once,
\* and overwrites its cache entry, exactly when the id is not cached or the
\* name, the online flag or the address list (as a sequence) differs from the
\* cached node; otherwise it emits no key for it and leaves the entry alone.
C29_UpsertIffMaterialChange ==
    [][SyncPassStep =>
          \A k \in 1..Len(fetched') :
              LET n == fetched'[k]
                  differs == \/ n.id \notin DOMAIN nodeCache
                             \/ nodeCache[n.id].name # n.name
                             \/ nodeCache[n.id].online # n.online
                             \/ nodeCache[n.id].addresses # n.addresses
              IN /\ Occurrences(pass'.keys, UpsertKey(n.id)) = IF differs THEN 1 ELSE 0
                 /\ nodeCache'[n.id] = IF differs THEN n ELSE nodeCache[n.id]]_vars

\* one device has changed since the start; node 1 and node 12 were cached by
\* an earlier pass (their keys are queued in that order and the last pass did
\* not emit node 12), node 1 kept its name and its online flag, and the last
\* pass emitted its key again and cached its new address list
C29_EmittedForNewAddresses ==
    /\ changes = MaxSyncChanges - 1
    /\ pass.result = "ok" /\ pass.keys = <<UpsertKey(Id1)>>
    /\ queue = <<UpsertKey(Id1), UpsertKey(Id12)>>
    /\ Id12 \in DOMAIN nodeCache
    /\ nodeCache[Id1].online
    /\ nodeCache[Id1].addresses = <<V4b, V4a>>

\* C26: a key added again while a worker processes it is not lost: done(key)
\* appends it to the queue, where no key ever stands twice, it is then handed
\* to a worker again, and the lookup of that reconcile reads the cache entry
\* as it is then.
C26_ReaddedKeyDeliveredAgain ==
    /\ [](\A k \in Keys : Occurrences(queue, k) <= 1)
    /\ [][\A w \in Workers :
            /\ (pc[w] = "finish" /\ pc'[w] = "idle" /\ item[w] \in dirty)
                  => queue' = Append(queue, item[w]) /\ item[w] \in dirty'
            /\ (/\ pc[w] = "reconcile" /\ pc'[w] # "reconcile"
                /\ item[w] \in DOMAIN nodeCache)
                  => node'[w] = nodeCache[item[w]]]_vars
    /\ \A k \in Keys :
          (\E w \in Workers :
               pc[w] \in {"publish", "sweep", "finish"} /\ item[w] = k /\ k \in dirty)
             ~> (\E w \in Workers : pc[w] = "reconcile" /\ item[w] = k)

\* the worker has reconciled node 1 as it was online; meanwhile the node went
\* offline and a pass cached that and added the key again, which is held back
C26_ChangedDuringReconcile ==
    /\ pc[1] = "finish" /\ item[1] = UpsertKey(Id1) /\ ~err[1]
    /\ Len(calls[1]) = 2
    /\ Id1 \in DOMAIN nodeCache
    /\ node[1].online /\ ~nodeCache[Id1].online
    /\ pass.keys = <<UpsertKey(Id1)>>
    /\ UpsertKey(Id1) \in dirty
    /\ queue = <<>>

\* the keys of q other than k, in q's order
Others(q, k) == SelectSeq(q, LAMBDA x : x # k)

\* C24: a reconcile failure for one key touches only that key: when a worker's
\* reconcile returns an error, and when the worker then re-queues the key, no
\* other key changes its place in the queue, its pending, in-flight or backoff
\* state, no other worker is disturbed, the Node Cache is as before, and the
\* worker goes back to queue.Get while Run keeps serving.
C24_FailureTouchesOnlyItsKey ==
    [][\A w \in Workers :
          LET k == item[w]
              fails == pc[w] \in {"reconcile", "publish", "sweep"}
                          /\ pc'[w] = "finish" /\ err'[w]
              requeues == pc[w] = "finish" /\ err[w] /\ pc'[w] # "finish"
          IN  (fails \/ requeues) =>
                /\ Others(queue', k) = Others(queue, k)
                /\ dirty' \ {k} = dirty \ {k}
                /\ processing' \ {k} = processing \ {k}
                /\ delayed' \ {k} = delayed \ {k}
                /\ \A v \in Workers \ {w} :
                      /\ pc'[v] = pc[v] /\ item'[v] = item[v] /\ err'[v] = err[v]
                      /\ node'[v] = node[v] /\ idx'[v] = idx[v]
                      /\ records'[v] = records[v]
                /\ nodeCache' = nodeCache
                /\ pc'[w] = IF fails THEN "finish" ELSE "idle"
                /\ run' = run /\ shutdown' = shutdown /\ cancelled' = cancelled]_vars

\* worker 1 returns an error while worker 2 is publishing another node and
\* a third key waits in its backoff
C24_FailedBesideOthers ==
    /\ pc[1] = "finish" /\ err[1]
    /\ pc[2] = "publish" /\ item[2] # item[1]
    /\ delayed # {} /\ item[1] \notin delayed /\ item[2] \notin delayed

\* C30: the derived name is the explicit name when that is not empty and the
\* hostname otherwise, cut before its first "." unless that "." is its first
\* character; a name that starts with "." and a name without "." stay whole.
C30_NameCutAtFirstDot ==
    converted.done =>
        LET base == IF device.name # <<>> THEN device.name ELSE device.hostname
            dots == {i \in 1..Len(base) : base[i] = "."}
        IN /\ dots = {} => converted.name = base
           /\ 1 \in dots => converted.name = base
           /\ (dots # {} /\ 1 \notin dots) =>
                 \E i \in dots :
                    /\ \A j \in dots : i <= j
                    /\ converted.name = [k \in 1..(i - 1) |-> base[k]]

\* a device without a Name whose Hostname is h.h
C30_HostnameCut ==
    /\ converted.done
    /\ device.name = <<>> /\ device.hostname = <<"h", ".", "h">>
    /\ converted.name = <<"h">>

\* C25: the delay of a retry is the base delay after a first failure and twice
\* the delay before after each further consecutive failure, but never more
\* than the maximum; a reconcile that succeeds makes the worker call Forget,
\* after which the key's failure count is zero; whatever happens to one key
\* leaves the counts and delays of the other keys alone, those of the same
\* node's other key included.
C25_BackoffPerKey ==
    /\ [](\A k \in Keys : delay[k] <= MaxDelay)
    /\ [][\A w \in Workers :
            (pc[w] = "finish" /\ pc'[w] = "idle") =>
                LET k == item[w]
                IN /\ err[w] =>
                        /\ failures'[k] = failures[k] + 1
                        /\ delay'[k] = IF failures[k] = 0 THEN BaseDelay
                                       ELSE IF 2 * delay[k] <= MaxDelay THEN 2 * delay[k]
                                       ELSE MaxDelay
                   /\ ~err[w] => failures'[k] = 0
                   /\ \A o \in Keys \ {k} :
                        failures'[o] = failures[o] /\ delay'[o] = delay[o]]_vars

\* the upsert key of node 1 has reached the maximum delay while the node's
\* deletion key has failed once
C25_CappedBesideFirstFailure ==
    /\ failures[UpsertKey(Id1)] = MaxFailures
    /\ delay[UpsertKey(Id1)] = MaxDelay
    /\ failures[DeleteKey(Id1)] = 1
    /\ delay[DeleteKey(Id1)] = BaseDelay

\* C22: the poller's first poll starts at once, without a tick; every later
\* poll starts by taking one tick from the ticker and every tick taken starts
\* one poll; once the ctx is cancelled no poll is started.
C22_PollOnStartThenPerTick ==
    [][/\ (watcher = "start" /\ watcher' # "start") => (watcher' = "list" /\ ticks' = ticks)
       /\ (watcher = "select" /\ watcher' = "list") => (ticks = 1 /\ ticks' = 0)
       /\ (ticks = 1 /\ ticks' = 0) => (watcher = "select" /\ watcher' = "list")
       /\ (watcher # "list" /\ watcher' = "list") => ~cancelled]_vars

\* C21: the sync pass holds the cache lock as the only holder from before its
\* first write to after its last, and the cache changes in no other step; a
\* worker holds the lock, shared with other workers, exactly while it is at
\* its lookup, so it looks up no entry between two writes of a pass and holds
\* no lock when it calls the backend.
C21_LockCoversPassAndLookup ==
    /\ [](/\ cacheMutex.writer => cacheMutex.readers = {}
          /\ cacheMutex.writer <=> watcher \in {"upserts", "deletions"}
          /\ \A w \in Workers : w \in cacheMutex.readers <=> pc[w] = "lookup")
    /\ [][/\ nodeCache' # nodeCache => (cacheMutex.writer /\ cacheMutex.readers = {})
          /\ \A w \in Workers :
                /\ (pc[w] = "lookup" /\ pc'[w] # "lookup") =>
                       (~cacheMutex.writer /\ watcher \notin {"upserts", "deletions"})
                /\ calls'[w] # calls[w] =>
                       (w \notin cacheMutex.readers /\ w \notin cacheMutex'.readers)]_vars

\* the pass has cached the first of two fetched nodes and not yet the second;
\* worker 1 has taken the first node's key and waits for the lock
C21_WorkerWaitsForPass ==
    /\ watcher = "upserts" /\ cacheMutex.writer
    /\ Len(sync.nodes) = 2 /\ sync.i = 2
    /\ DOMAIN nodeCache = {Id1}
    /\ pc[1] = "reconcile" /\ item[1] = UpsertKey(Id1)

\* the upsert of worker w has returned and its last backend call, the
\* update_record of the ownership TXT record, succeeded
OwnershipPublished(w) ==
    /\ pc[w] = "finish" /\ ~ForDeletion(item[w])
    /\ calls[w] # <<>>
    /\ calls[w][Len(calls[w])].rec.type = "TXT"
    /\ outcomes[w][Len(calls[w])] = "ok"

\* C38: on every backend, an ownership TXT record that update_record has
\* published is among the records list_records returns afterwards.
C38_PublishedMarkerIsListed ==
    \A w \in Workers :
        OwnershipPublished(w) =>
            calls[w][Len(calls[w])].rec \in ListRecords(provider, zone)

\* C37: when an upsert of a managed node has returned without error, the
\* backend holds a record for each of the node's addresses, also for two
\* addresses of the same family.
C37_OneRecordPerAddress ==
    \A w \in Workers :
        (UpsertReturned(w) /\ ~err[w] /\ calls[w] # <<>>) =>
            \A k \in 1..Len(node[w].addresses) :
                \E r \in zone : DNSRecord(r) = AddressRecord(node[w], node[w].addresses[k])

\* C36: after a successful sync pass the cache holds, for every id of the list
\* just fetched, a node with the id, name, addresses and tags that the list
\* reports for it.
C36_CacheAgreesWithSnapshot ==
    pass.result = "ok" =>
        \A k \in 1..Len(fetched) :
            /\ fetched[k].id \in DOMAIN nodeCache
            /\ nodeCache[fetched[k].id].id = fetched[k].id
            /\ nodeCache[fetched[k].id].name = fetched[k].name
            /\ nodeCache[fetched[k].id].addresses = fetched[k].addresses
            /\ nodeCache[fetched[k].id].tags = fetched[k].tags

\* C34: when an upsert of a managed node has returned without error, every
\* record in the backend that a reconcile of that node id wrote is one of
\* the records derived from the node the upsert read: an address record or
\* the ownership record at its current name.
C34_OnlyCurrentRecordsRemain ==
    \A w \in Workers :
        (UpsertReturned(w) /\ ~err[w] /\ calls[w] # <<>>) =>
            \A r \in zone :
                r.by = node[w].id =>
                    \/ DNSRecord(r) = OwnershipRecord(node[w])
                    \/ \E k \in 1..Len(node[w].addresses) :
                          DNSRecord(r) = AddressRecord(node[w], node[w].addresses[k])

\* C32: a deletion reconcile for node id X calls delete_record for no record
\* at a name where the list it scanned holds the ownership TXT record of
\* another node id Y, also when X is a proper prefix of Y.
C32_MarkerMatchedOnWholeId ==
    \A w \in Workers :
        ForDeletion(item[w]) =>
            \A r \in Deleted(w) :
                ~\E t \in records[w].listed : \E y \in IDs \ {KeyId(item[w])} :
                    /\ t.name = r.name
                    /\ t.type = "TXT"
                    /\ t.value = OwnershipValue(y)

\* the names at which the list holds the ownership TXT record of node id
MarkedNames(listed, id) ==
    {t.name : t \in {r \in listed : r.type = "TXT" /\ r.value = OwnershipValue(id)}}

\* C33: when the list a deletion reconcile for node id X scanned held the
\* ownership record of X at more than one name and the reconcile has returned
\* with every backend call succeeding, the backend holds no ownership record
\* of X any more.
C33_EveryMarkedNameSwept ==
    \A w \in Workers :
        (/\ pc[w] = "finish" /\ ForDeletion(item[w]) /\ ~err[w]
         /\ \A j \in 1..Len(outcomes[w]) : outcomes[w][j] = "ok"
         /\ Cardinality(MarkedNames(records[w].listed, KeyId(item[w]))) > 1)
            => ~\E r \in zone : r.type = "TXT" /\ r.value = OwnershipValue(KeyId(item[w]))

\* C31: a deletion reconcile for node id X deletes no record written for X
\* while X is in the Node Cache again and the upsert key queued for its
\* return has been processed.
C31_RejoinedNodeKeepsRecords ==
    [][\A w \in Workers :
          LET X == KeyId(item[w])
          IN (/\ pc[w] = "sweep"
              /\ X \in DOMAIN nodeCache
              /\ UpsertKey(X) \notin dirty \cup processing \cup delayed)
                => \A r \in zone : r.by = X => r \in zone']_vars

\* C35: when the snapshot has stopped changing and every backend call
\* succeeds, the work queue eventually becomes and stays empty, with no key
\* being processed and no key in backoff.
C35_QueueDrainsForGood ==
    <>[](queue = <<>> /\ dirty = {} /\ processing = {} /\ delayed = {})

\* C39: reconcile sends a key to the deletion path exactly when syncNodes
\* queued it for a deletion intent, and the node id it works on is the id of
\* that intent, for every node id, one that ends in ":delete" included.
C39_RoutedAsDetected ==
    routed.stage = "routed" =>
        /\ routed.deletion = intent.deletion
        /\ routed.id = intent.id


\* C40: a worker takes an item only when it holds none; it holds the item, with
\* the item's failure count untouched, until its reconcile has returned; it
\* then calls AddRateLimited (after an error: one more failure counted, the
\* key in backoff) or Forget (after a success: the count back to 0, the key
\* not put in backoff), never both, and Done (the key no longer in processing)
\* in the same turn of the loop, before the next Get; it exits only from Get,
\* when the queue is shut down.
C40_OneVerdictThenDone ==
    [][\A w \in Workers :
          LET k == item[w]
          IN /\ (pc[w] = "idle" /\ pc'[w] = "reconcile") =>
                    /\ k = <<>>
                    /\ item'[w] = Head(queue)
                    /\ item'[w] \in processing'
             /\ (pc[w] \notin {"idle", "exited"} /\ pc'[w] # "idle") =>
                    /\ item'[w] = k
                    /\ k \in processing'
                    /\ failures'[k] = failures[k]
                    /\ k \in delayed' => k \in delayed
             /\ (pc[w] \notin {"idle", "exited"} /\ pc'[w] = "idle") =>
                    /\ pc[w] = "finish"
                    /\ k \notin processing'
                    /\ item'[w] = <<>>
                    /\ IF err[w]
                       THEN failures'[k] = failures[k] + 1 /\ delayed' = delayed \cup {k}
                       ELSE failures'[k] = 0 /\ delayed' = delayed
             /\ (pc[w] # "exited" /\ pc'[w] = "exited") =>
                    pc[w] = "idle" /\ queue = <<>> /\ shutdown]_vars

\* a key that failed and went through its backoff has then succeeded: its
\* failure count is back to 0 and the worker holds nothing
C40_FailedThenForgotten ==
    \E k \in Keys :
        /\ delay[k] > 0
        /\ failures[k] = 0
        /\ k \notin processing \cup delayed
        /\ pc[1] = "idle"

====
